---- MODULE Spec2Model ----
(***************************************************************************)
(* CallSheetCraft: the document-to-domain parser (craftService), the       *)
(* enrichment gate and merger (geminiService), the access gate of the API  *)
(* routes, and the client controller that sits in front of them.           *)
(*                                                                         *)
(* Text is a sequence of one-character strings, so that trim, replace,     *)
(* includes, startsWith and toLowerCase are computed, not assumed.         *)
(* A JavaScript object is a function whose DOMAIN is the set of its keys;  *)
(* a key that is absent reads as `undefined`.                              *)
(***************************************************************************)
EXTENDS Integers, Sequences, FiniteSets, TLC

(***************************************************************************)
(* JavaScript values                                                       *)
(***************************************************************************)
\* the value of a missing property or argument (never equal to any text)
undefined == <<"undefined">>

\* null, where the code returns or stores null instead of an object
null == <<>>

\* the empty object {}
EmptyObject == [k \in {} |-> <<>>]

\* obj[key], undefined when the object has no such key
Get(obj, key) == IF key \in DOMAIN obj THEN obj[key] ELSE undefined

\* truthiness of a text-or-undefined value: '' and undefined are falsy
\* const x = v; body(x): v is evaluated once
Let(v, body(_)) == CHOOSE r \in {body(x) : x \in {v}} : TRUE

Truthy(v) == v # undefined /\ v # <<>>

\* v || dflt
OrElse(v, dflt) == IF Truthy(v) THEN v ELSE dflt

(***************************************************************************)
(* String primitives                                                       *)
(***************************************************************************)
WhiteSpace == {" ", "\t"}

Digits == {"0", "1", "2", "3", "4", "5", "6", "7", "8", "9"}

UpperToLower ==
  [c \in {"A","B","C","D","E","F","G","H","I","J","K","L","M","N","O","P","Q",
          "R","S","T","U","V","W","X","Y","Z"} |->
     CASE c = "A" -> "a" [] c = "B" -> "b" [] c = "C" -> "c" [] c = "D" -> "d"
       [] c = "E" -> "e" [] c = "F" -> "f" [] c = "G" -> "g" [] c = "H" -> "h"
       [] c = "I" -> "i" [] c = "J" -> "j" [] c = "K" -> "k" [] c = "L" -> "l"
       [] c = "M" -> "m" [] c = "N" -> "n" [] c = "O" -> "o" [] c = "P" -> "p"
       [] c = "Q" -> "q" [] c = "R" -> "r" [] c = "S" -> "s" [] c = "T" -> "t"
       [] c = "U" -> "u" [] c = "V" -> "v" [] c = "W" -> "w" [] c = "X" -> "x"
       [] c = "Y" -> "y" [] c = "Z" -> "z"]

LowerChar(c) == IF c \in DOMAIN UpperToLower THEN UpperToLower[c] ELSE c

\* String.prototype.toLowerCase
toLowerCase(s) == [i \in 1..Len(s) |-> LowerChar(s[i])]

RECURSIVE TrimStart(_)
TrimStart(s) ==
  IF s # <<>> /\ Head(s) \in WhiteSpace THEN TrimStart(Tail(s)) ELSE s

RECURSIVE TrimEnd(_)
TrimEnd(s) ==
  IF s # <<>> /\ s[Len(s)] \in WhiteSpace
  THEN TrimEnd(SubSeq(s, 1, Len(s) - 1)) ELSE s

\* String.prototype.trim
trim(s) == TrimEnd(TrimStart(s))

\* String.prototype.startsWith
startsWith(s, prefix) ==
  Len(s) >= Len(prefix) /\ SubSeq(s, 1, Len(prefix)) = prefix

\* String.prototype.includes
includes(s, sub) ==
  \E i \in 0..(Len(s) - Len(sub)) : SubSeq(s, i + 1, i + Len(sub)) = sub

\* String.prototype.replace(pattern, '') with a string pattern: removes the
\* first occurrence only
replaceFirst(s, pat) ==
  IF ~includes(s, pat) THEN s
  ELSE LET i == CHOOSE j \in 0..(Len(s) - Len(pat)) :
                  /\ SubSeq(s, j + 1, j + Len(pat)) = pat
                  /\ \A k \in 0..(j - 1) : SubSeq(s, k + 1, k + Len(pat)) # pat
       IN  SubSeq(s, 1, i) \o SubSeq(s, i + Len(pat) + 1, Len(s))

\* value?.trim() for a text-or-undefined value
TrimOpt(v) == IF v = undefined THEN undefined ELSE trim(v)

(***************************************************************************)
(* Literals of the source                                                  *)
(***************************************************************************)
sCrew == <<"c", "r", "e", "w">>
sCast == <<"c", "a", "s", "t">>
sLocation == <<"l", "o", "c", "a", "t", "i", "o", "n">>
sScene == <<"s", "c", "e", "n", "e">>
sHash == <<"#">>
sGEM == <<"G", "E", "M">>
sNA == <<"N", "/", "A">>
sLocationAddress ==
  <<"L", "o", "c", "a", "t", "i", "o", "n", " ", "A", "d", "d", "r", "e", "s", "s">>
sPhone == <<"P", "h", "o", "n", "e">>
sphone == <<"p", "h", "o", "n", "e">>
sName == <<"N", "a", "m", "e">>
sRole == <<"R", "o", "l", "e">>
sCharacter == <<"C", "h", "a", "r", "a", "c", "t", "e", "r">>
sCallTime == <<"C", "a", "l", "l", " ", "T", "i", "m", "e">>

nearestHospital ==
  <<"n", "e", "a", "r", "e", "s", "t", "H", "o", "s", "p", "i", "t", "a", "l">>
nearestFireStation ==
  <<"n", "e", "a", "r", "e", "s", "t", "F", "i", "r", "e", "S", "t", "a", "t", "i", "o", "n">>
nearestPoliceStation ==
  <<"n", "e", "a", "r", "e", "s", "t", "P", "o", "l", "i", "c", "e", "S", "t", "a", "t", "i", "o", "n">>
nearestEmergencyAfterHours ==
  <<"n", "e", "a", "r", "e", "s", "t", "E", "m", "e", "r", "g", "e", "n", "c", "y",
    "A", "f", "t", "e", "r", "H", "o", "u", "r", "s">>
sunriseTime == <<"s", "u", "n", "r", "i", "s", "e", "T", "i", "m", "e">>
sunsetTime == <<"s", "u", "n", "s", "e", "t", "T", "i", "m", "e">>
weatherTemp == <<"w", "e", "a", "t", "h", "e", "r", "T", "e", "m", "p">>
weatherDesc == <<"w", "e", "a", "t", "h", "e", "r", "D", "e", "s", "c">>
publicTransportInfo ==
  <<"p", "u", "b", "l", "i", "c", "T", "r", "a", "n", "s", "p", "o", "r", "t", "I", "n", "f", "o">>
transportDesc ==
  <<"t", "r", "a", "n", "s", "p", "o", "r", "t", "D", "e", "s", "c">>

\* the ten keys of an enrichment result, in the order of the merge
ResultFields ==
  <<nearestHospital, nearestFireStation, nearestPoliceStation,
    nearestEmergencyAfterHours, sunriseTime, sunsetTime, weatherTemp,
    weatherDesc, publicTransportInfo, transportDesc>>

\* the key 'GEM<field>' under which a result field is kept in gemData
GemKey(field) == sGEM \o field

(***************************************************************************)
(* EnrichmentGate                                                          *)
(***************************************************************************)
requiredFields == [i \in 1..Len(ResultFields) |-> GemKey(ResultFields[i])]

needsEnrichment_anyOnly(gemData) ==
  \E i \in 1..Len(requiredFields) : ~Truthy(Get(gemData, requiredFields[i]))

\* requiredFields.some(f => !gemData[f] || gemData[f].trim() === '')
needsEnrichment(gemData) ==
  \E i \in 1..Len(requiredFields) :
     LET v == Get(gemData, requiredFields[i])
     IN  ~Truthy(v) \/ trim(v) = <<>>

(***************************************************************************)
(* TableCodec (craftService)                                               *)
(*   a table block is [type, id, rows]; a row is a sequence of cells; a    *)
(*   cell is an object with a `value` text and an `attributes` list        *)
(***************************************************************************)
\* row[j]?.value with a 0-based j
CellValue(row, j) == IF j + 1 <= Len(row) THEN Get(row[j + 1], "value") ELSE undefined

\* tableBlock?.rows, or the empty list when the block has no rows
RowsOf(tableBlock) == IF "rows" \in DOMAIN tableBlock THEN tableBlock.rows ELSE <<>>

\* the rows of a key/value table that contribute an entry
KeyValueRow(row) == Len(row) >= 2 /\ Truthy(TrimOpt(CellValue(row, 0)))

parseKeyValueTable(tableBlock) ==
  LET rows == RowsOf(tableBlock)
      used == {i \in 1..Len(rows) : KeyValueRow(rows[i])}
      keys == {trim(CellValue(rows[i], 0)) : i \in used}
      last(k) == CHOOSE i \in used :
                   /\ trim(CellValue(rows[i], 0)) = k
                   /\ \A j \in used : trim(CellValue(rows[j], 0)) = k => j <= i
  IN  [k \in keys |-> OrElse(TrimOpt(CellValue(rows[last(k)], 1)), <<>>)]

\* the header names: rows[0].map(cell => cell?.value?.trim() || '')
HeadersOf(rows) ==
  [j \in 1..Len(rows[1]) |-> OrElse(TrimOpt(CellValue(rows[1], j - 1)), <<>>)]

\* the record built from one data row: a later column with the same header
\* overwrites an earlier one
RowData(headers, row) ==
  LET last(h) == CHOOSE j \in 1..Len(headers) :
                   headers[j] = h /\ \A k \in 1..Len(headers) : headers[k] = h => k <= j
  IN  [h \in {headers[j] : j \in 1..Len(headers)} |->
         OrElse(TrimOpt(CellValue(row, last(h) - 1)), <<>>)]

HasData_anyCell(headers, row) ==
  \E j \in 1..Len(row) : Truthy(TrimOpt(CellValue(row, j - 1)))

\* hasData: some cell under a header column is non-empty after trimming
HasData(headers, row) ==
  \E j \in 1..Len(headers) : Truthy(TrimOpt(CellValue(row, j - 1)))

RECURSIVE DataRows(_, _, _)
DataRows(headers, rows, i) ==
  IF i > Len(rows) THEN <<>>
  ELSE (IF HasData(headers, rows[i]) THEN <<RowData(headers, rows[i])>> ELSE <<>>)
       \o DataRows(headers, rows, i + 1)

parseDataTable(tableBlock) ==
  LET rows == RowsOf(tableBlock)
  IN  IF Len(rows) < 2 THEN <<>> ELSE DataRows(HeadersOf(rows), rows, 2)

(***************************************************************************)
(* DocumentParser (craftService.parseProduction)                           *)
(*   a text block is [type |-> "text", textStyle, markdown]                *)
(***************************************************************************)
SectionOf_castFirst(markdown) ==
  LET sectionName == toLowerCase(trim(replaceFirst(markdown, sHash)))
  IN  CASE includes(sectionName, sCast) -> "cast"
        [] ~includes(sectionName, sCast) /\ includes(sectionName, sCrew) -> "crew"
        [] ~includes(sectionName, sCrew) /\ ~includes(sectionName, sCast)
             /\ includes(sectionName, sLocation) -> "locations"
        [] ~includes(sectionName, sCrew) /\ ~includes(sectionName, sCast)
             /\ ~includes(sectionName, sLocation) /\ includes(sectionName, sScene) -> "scenes"
        [] OTHER -> "none"

\* the section chosen by a level-1 heading (null when none matches)
SectionOf(markdown) ==
  LET sectionName == toLowerCase(trim(replaceFirst(markdown, sHash)))
  IN  CASE includes(sectionName, sCrew) -> "crew"
        [] ~includes(sectionName, sCrew) /\ includes(sectionName, sCast) -> "cast"
        [] ~includes(sectionName, sCrew) /\ ~includes(sectionName, sCast)
             /\ includes(sectionName, sLocation) -> "locations"
        [] ~includes(sectionName, sCrew) /\ ~includes(sectionName, sCast)
             /\ ~includes(sectionName, sLocation) /\ includes(sectionName, sScene) -> "scenes"
        [] OTHER -> "none"

IsHeading(block, style) ==
  block.type = "text" /\ "textStyle" \in DOMAIN block /\ block.textStyle = style

\* the fresh production object before any block is read
NewProduction(item) ==
  [id |-> item.id,
   title |-> OrElse(Get(item, "production_title"), Get(item, "title")),
   properties |-> IF "properties" \in DOMAIN item THEN item.properties ELSE EmptyObject,
   crew |-> <<>>, cast |-> <<>>, locations |-> <<>>, scenes |-> <<>>]

\* the walker's state: the production built so far, currentSection, the
\* position of currentLocation in production.locations (0 = null),
\* locationIndex, and whether a TypeError was thrown
NewWalk(item) ==
  [production |-> NewProduction(item), currentSection |-> "none",
   currentLocation |-> 0, locationIndex |-> 0, threw |-> FALSE]

RouteInto_noPrefix(old, locationData, wantGem) ==
  LET mine == IF wantGem THEN {} ELSE DOMAIN locationData
  IN  [k \in (DOMAIN old) \cup mine |->
         IF k \in mine THEN locationData[k] ELSE old[k]]

\* the key/value pairs of a location table routed by the 'GEM' prefix
RouteInto(old, locationData, wantGem) ==
  LET mine == {k \in DOMAIN locationData : startsWith(k, sGEM) = wantGem}
  IN  [k \in (DOMAIN old) \cup mine |->
         IF k \in mine THEN locationData[k] ELSE old[k]]

ParseBlock_appends(w, block) ==
  IF w.threw THEN w
  ELSE IF IsHeading(block, "h1") THEN
    IF "markdown" \notin DOMAIN block
    THEN [w EXCEPT !.threw = TRUE]      \* undefined.includes(...) throws
    ELSE [w EXCEPT !.currentSection = SectionOf(block.markdown)]
  ELSE IF IsHeading(block, "h2") THEN
    IF "markdown" \in DOMAIN block /\ includes(toLowerCase(block.markdown), sLocation)
    THEN [w EXCEPT !.locationIndex = @ + 1,
                   !.currentLocation = Len(w.production.locations) + 1,
                   !.production.locations =
                      Append(@, [index |-> w.locationIndex + 1, tableId |-> null,
                                 data |-> EmptyObject, gemData |-> EmptyObject])]
    ELSE w
  ELSE IF block.type = "table" THEN
    CASE w.currentSection = "crew" ->
           [w EXCEPT !.production.crew = @ \o parseDataTable(block)]
      [] w.currentSection = "cast" ->
           [w EXCEPT !.production.cast = parseDataTable(block)]
      [] w.currentSection = "scenes" ->
           [w EXCEPT !.production.scenes = parseDataTable(block)]
      [] w.currentSection = "locations" /\ w.currentLocation # 0 ->
           LET locationData == parseKeyValueTable(block)
               c == w.currentLocation
           IN  [w EXCEPT !.production.locations[c].tableId = Get(block, "id"),
                         !.production.locations[c].gemData =
                            RouteInto(@, locationData, TRUE),
                         !.production.locations[c].data =
                            RouteInto(@, locationData, FALSE)]
      [] OTHER -> w
  ELSE w

\* one iteration of `for (const block of item.content)`
ParseBlock(w, block) ==
  IF w.threw THEN w
  ELSE IF IsHeading(block, "h1") THEN
    IF "markdown" \notin DOMAIN block
    THEN [w EXCEPT !.threw = TRUE]      \* undefined.includes(...) throws
    ELSE [w EXCEPT !.currentSection = SectionOf(block.markdown)]
  ELSE IF IsHeading(block, "h2") THEN
    IF "markdown" \in DOMAIN block /\ includes(toLowerCase(block.markdown), sLocation)
    THEN [w EXCEPT !.locationIndex = @ + 1,
                   !.currentLocation = Len(w.production.locations) + 1,
                   !.production.locations =
                      Append(@, [index |-> w.locationIndex + 1, tableId |-> null,
                                 data |-> EmptyObject, gemData |-> EmptyObject])]
    ELSE w
  ELSE IF block.type = "table" THEN
    CASE w.currentSection = "crew" ->
           [w EXCEPT !.production.crew = parseDataTable(block)]
      [] w.currentSection = "cast" ->
           [w EXCEPT !.production.cast = parseDataTable(block)]
      [] w.currentSection = "scenes" ->
           [w EXCEPT !.production.scenes = parseDataTable(block)]
      [] w.currentSection = "locations" /\ w.currentLocation # 0 ->
           LET locationData == parseKeyValueTable(block)
               c == w.currentLocation
           IN  [w EXCEPT !.production.locations[c].tableId = Get(block, "id"),
                         !.production.locations[c].gemData =
                            RouteInto(@, locationData, TRUE),
                         !.production.locations[c].data =
                            RouteInto(@, locationData, FALSE)]
      [] OTHER -> w
  ELSE w

RECURSIVE Walk(_, _, _)
Walk(w, content, i) ==
  IF i > Len(content) THEN w ELSE Walk(ParseBlock(w, content[i]), content, i + 1)

\* the walker's final state; .threw tells that parseProduction raised
parseProductionWalk(item) ==
  IF "content" \notin DOMAIN item THEN NewWalk(item)
  ELSE Walk(NewWalk(item), item.content, 1)

parseProduction(item) == parseProductionWalk(item).production

(***************************************************************************)
(* AccessGate (routes/api.js, the sanitizing version)                      *)
(***************************************************************************)
IsDigit(c) == c \in Digits

\* phone?.replace(/\D/g, '') || ''
normalizePhone(phone) ==
  IF phone = undefined THEN <<>> ELSE SelectSeq(phone, IsDigit)

\* an object without the keys in `dropped`
Without(obj, dropped) == [k \in (DOMAIN obj) \ dropped |-> obj[k]]

\* JSON.parse(JSON.stringify(location)): a key whose value is undefined is
\* not serialised (only tableId can be: a table block without an id)
JsonLocation(loc) ==
  [k \in {f \in DOMAIN loc : f = "tableId" => loc[f] # undefined} |-> loc[k]]

\* JSON.parse(JSON.stringify(production)), also what res.json(production)
\* puts on the wire
JsonClone(production) ==
  [production EXCEPT
     !.locations = [i \in 1..Len(@) |-> JsonLocation(@[i])]]

sanitizeProduction_keepPhone(production) == JsonClone(production)

\* const { Phone, phone, ...rest } = member, for every crew and cast member
sanitizeProduction(production) ==
  LET sanitized == JsonClone(production)
  IN  [sanitized EXCEPT
         !.crew = [i \in 1..Len(@) |-> Without(@[i], {sPhone, sphone})],
         !.cast = [i \in 1..Len(@) |-> Without(@[i], {sPhone, sphone})]]

\* an object literal as it is serialised: keys whose value is undefined vanish
Defined(obj) == [k \in {f \in DOMAIN obj : obj[f] # undefined} |-> obj[k]]

CrewInfo(member) ==
  Defined([name |-> Get(member, sName), role |-> Get(member, sRole),
           callTime |-> Get(member, sCallTime), type |-> sCrew])

CastInfo(member) ==
  Defined([name |-> Get(member, sName), character |-> Get(member, sCharacter),
           callTime |-> Get(member, sCallTime), type |-> sCast])

\* the positions of the members whose normalized Phone is the given one
Matches(members, normalizedPhone) ==
  {i \in 1..Len(members) : normalizePhone(Get(members[i], sPhone)) = normalizedPhone}

Min(S) == CHOOSE i \in S : \A j \in S : i <= j

findUserByPhone_castFirst(production, phone) ==
  LET normalizedPhone == normalizePhone(phone)
      inCrew == Matches(production.crew, normalizedPhone)
      inCast == Matches(production.cast, normalizedPhone)
  IN  IF normalizedPhone = <<>> THEN null
      ELSE IF inCast # {} THEN CastInfo(production.cast[Min(inCast)])
      ELSE IF inCrew # {} THEN CrewInfo(production.crew[Min(inCrew)])
      ELSE null

findUserByPhone_noEmptyGuard(production, phone) ==
  LET normalizedPhone == normalizePhone(phone)
      inCrew == Matches(production.crew, normalizedPhone)
      inCast == Matches(production.cast, normalizedPhone)
  IN  IF inCrew # {} THEN CrewInfo(production.crew[Min(inCrew)])
      ELSE IF inCast # {} THEN CastInfo(production.cast[Min(inCast)])
      ELSE null

findUserByPhone(production, phone) ==
  LET normalizedPhone == normalizePhone(phone)
      inCrew == Matches(production.crew, normalizedPhone)
      inCast == Matches(production.cast, normalizedPhone)
  IN  IF normalizedPhone = <<>> THEN null
      ELSE IF inCrew # {} THEN CrewInfo(production.crew[Min(inCrew)])
      ELSE IF inCast # {} THEN CastInfo(production.cast[Min(inCast)])
      ELSE null

\* production.properties?.closed_set === true
ClosedSetIsTrue(production) ==
  "closed_set" \in DOMAIN production.properties
    /\ production.properties.closed_set = TRUE

(***************************************************************************)
(* The document store (Craft), as craftService reads and writes it         *)
(*   craft.items is the list of items of the CallSheetAPI collection, each *)
(*   with its content blocks (maxDepth = -1)                               *)
(***************************************************************************)
\* the outcome of an operation that may throw
Returned(v) == [threw |-> FALSE, value |-> v]
Threw(msg) == [threw |-> TRUE, error |-> msg]

\* the blocks of an item (none when it has no content)
ContentOf(item) == IF "content" \in DOMAIN item THEN item.content ELSE <<>>

\* positions <<item, block>> of the blocks that carry the given id
BlockPositions(craft, blockId) ==
  {pos \in UNION {{<<i, b>> : b \in 1..Len(ContentOf(craft.items[i]))} :
                    i \in 1..Len(craft.items)} :
     Get(craft.items[pos[1]].content[pos[2]], "id") = blockId}

\* getBlock: GET /blocks?id=...; throws when the response is not ok
getBlock(craft, blockId, up) ==
  IF ~up THEN Threw("Failed to fetch block")
  ELSE Let(BlockPositions(craft, blockId), LAMBDA found :
         IF found = {} THEN Threw("Failed to fetch block")
         ELSE Let(CHOOSE q \in found : TRUE, LAMBDA pos :
                Returned(craft.items[pos[1]].content[pos[2]])))

\* the block with its rows replaced
WithRows(block, rows) ==
  [k \in (DOMAIN block) \cup {"rows"} |-> IF k = "rows" THEN rows ELSE block[k]]

\* the store after a successful PUT /blocks of [{id, rows}]
PutRows(craft, blockId, rows) ==
  [craft EXCEPT !.items =
     [i \in 1..Len(@) |->
        IF "content" \notin DOMAIN @[i] THEN @[i]
        ELSE [@[i] EXCEPT !.content =
                [b \in 1..Len(@) |->
                   IF Get(@[b], "id") = blockId THEN WithRows(@[b], rows) ELSE @[b]]]]]

\* items.find(i => i.id === id)
ItemsWithId(craft, id) == {i \in 1..Len(craft.items) : craft.items[i].id = id}

getProductionById(craft, id, up) ==
  IF ~up THEN Threw("Failed to fetch collection items")
  ELSE IF ItemsWithId(craft, id) = {} THEN Threw("Production not found")
  ELSE Let(parseProductionWalk(craft.items[Min(ItemsWithId(craft, id))]), LAMBDA w :
         IF w.threw THEN Threw("TypeError") ELSE Returned(w.production))

(***************************************************************************)
(* EnrichmentMerger (geminiService, the single-request version)            *)
(*   the knowledge-service reply is [kind, list, object]:                  *)
(*     "throw"   generateContent rejected                                  *)
(*     "invalid" the text is not JSON once the optional fence is stripped  *)
(*     "object"  the text decodes to a single object                       *)
(*     "list"    the text decodes to an array of objects                   *)
(*   faults is [read, write]: the table ids whose getBlock / updateBlocks  *)
(*   request is answered with a non-ok status                              *)
(***************************************************************************)
\* gemKey.charAt(0).toLowerCase() + gemKey.slice(1), gemKey = key.replace('GEM', '')
LowerKey(key) ==
  LET gemKey == replaceFirst(key, sGEM)
  IN  IF gemKey = <<>> THEN <<>> ELSE <<LowerChar(gemKey[1])>> \o Tail(gemKey)

\* the callback of tableBlock.rows.map in updateLocationWithGemData
UpdatedRow(row, gemData) ==
  LET key == TrimOpt(CellValue(row, 0))
  IN  IF /\ Len(row) >= 2
         /\ Truthy(key)
         /\ startsWith(key, sGEM)
         /\ Truthy(Get(gemData, LowerKey(key)))
      THEN << [value |-> key, attributes |-> <<>>],
              [value |-> gemData[LowerKey(key)], attributes |-> <<>>] >>
      ELSE row

\* the state threaded through an enrichment: the in-memory production, the
\* store, the prompts sent to the knowledge service, the results assigned to
\* location.gemData, the PUT requests sent to the store, and whether an
\* exception is propagating
NewRun(production, craft) ==
  [production |-> production, craft |-> craft, prompts |-> <<>>, merged |-> <<>>,
   puts |-> <<>>, threw |-> FALSE]

updateLocationWithGemData(e, tableId, gemData, faults) ==
  Let(getBlock(e.craft, tableId, tableId \notin faults.read), LAMBDA got :
    IF got.threw THEN [e EXCEPT !.threw = TRUE]
    ELSE IF "rows" \notin DOMAIN got.value THEN e
    ELSE Let([r \in 1..Len(got.value.rows) |-> UpdatedRow(got.value.rows[r], gemData)],
             LAMBDA rows :
           IF tableId \in faults.write
           THEN [e EXCEPT !.puts = Append(@, [id |-> tableId, rows |-> rows, ok |-> FALSE])]
           ELSE [e EXCEPT !.puts = Append(@, [id |-> tableId, rows |-> rows, ok |-> TRUE]),
                          !.craft = PutRows(@, tableId, rows)]))

MergedGemData_noDefault(enrichedData) ==
  [k \in {GemKey(ResultFields[i]) : i \in 1..Len(ResultFields)} |->
     LET field == SubSeq(k, Len(sGEM) + 1, Len(k))
     IN  IF field \in DOMAIN enrichedData THEN enrichedData[field] ELSE <<>>]

MergedGemData_givenKeysOnly(enrichedData) ==
  [k \in {GemKey(f) : f \in DOMAIN enrichedData} |->
     LET field == SubSeq(k, Len(sGEM) + 1, Len(k))
     IN  OrElse(Get(enrichedData, field), IF field = transportDesc THEN sNA ELSE <<>>)]

\* the object literal assigned to location.gemData
MergedGemData(enrichedData) ==
  [k \in {GemKey(ResultFields[i]) : i \in 1..Len(ResultFields)} |->
     LET field == SubSeq(k, Len(sGEM) + 1, Len(k))
     IN  OrElse(Get(enrichedData, field), IF field = transportDesc THEN sNA ELSE <<>>)]

\* location.data['Location Address']
AddressOf(location) == Get(location.data, sLocationAddress)

EligiblePositions_noAddressCheck(locations) ==
  {i \in 1..Len(locations) : needsEnrichment(locations[i].gemData)}

\* the 1-based positions pushed to locationsToEnrich, in order
EligiblePositions(locations) ==
  {i \in 1..Len(locations) :
     needsEnrichment(locations[i].gemData) /\ Truthy(AddressOf(locations[i]))}

RECURSIVE Ascending(_)
Ascending(S) == IF S = {} THEN <<>> ELSE <<Min(S)>> \o Ascending(S \ {Min(S)})

NextAddress(locations, i) ==
  IF i < Len(locations) THEN AddressOf(locations[i + 1]) ELSE null

locationsToEnrich_byReplyIndex(locations) ==
  LET order == Ascending(EligiblePositions(locations))
  IN  [j \in 1..Len(order) |->
         [index |-> order[j] - 1, address |-> AddressOf(locations[order[j]]),
          nextAddress |-> NextAddress(locations, order[j]), location |-> j]]

locationsToEnrich(locations) ==
  LET order == Ascending(EligiblePositions(locations))
  IN  [j \in 1..Len(order) |->
         [index |-> order[j] - 1, address |-> AddressOf(locations[order[j]]),
          nextAddress |-> NextAddress(locations, order[j]), location |-> order[j]]]

sToday == <<"t", "o", "d", "a", "y">>

\* what the prompt carries: the shoot date and, per eligible location, the
\* address and (when truthy) the next address
PromptFor(production, toEnrich) ==
  [date |-> OrElse(Get(production.properties, "date_of_shoot"), sToday),
   locations |-> [j \in 1..Len(toEnrich) |->
                    IF Truthy(toEnrich[j].nextAddress)
                    THEN [address |-> toEnrich[j].address, next |-> toEnrich[j].nextAddress]
                    ELSE [address |-> toEnrich[j].address]]]

\* the body of `for (let j = 0; ...)`, from the 1-based j on; an exception
\* leaves the loop for the catch block
RECURSIVE ApplyEnriched(_, _, _, _, _)
ApplyEnriched(e, toEnrich, enrichedLocations, faults, j) ==
  IF e.threw \/ j > Len(toEnrich) \/ j > Len(enrichedLocations) THEN e
  ELSE LET pos == toEnrich[j].location
           tableId == e.production.locations[pos].tableId
       IN  Let([e EXCEPT !.production.locations[pos].gemData =
                           MergedGemData(enrichedLocations[j]),
                         !.merged = Append(@, [location |-> pos,
                                               data |-> enrichedLocations[j]])],
               LAMBDA merged :
           Let(IF Truthy(tableId)
               THEN updateLocationWithGemData(merged, tableId, enrichedLocations[j], faults)
               ELSE merged, LAMBDA done :
           ApplyEnriched(done, toEnrich, enrichedLocations, faults, j + 1)))

enrichProduction_wrapsObject(production, craft, configured, reply, faults) ==
  Let(locationsToEnrich(production.locations), LAMBDA toEnrich :
  Let(NewRun(production, craft), LAMBDA e :
    IF ~configured THEN e
    ELSE IF Len(toEnrich) = 0 THEN e
    ELSE Let([e EXCEPT !.prompts = <<PromptFor(production, toEnrich)>>], LAMBDA asked :
           IF reply.kind \in {"throw", "invalid"} THEN asked
           ELSE [ApplyEnriched(asked, toEnrich,
                               IF reply.kind = "list" THEN reply.list ELSE <<reply.object>>,
                               faults, 1)
                   EXCEPT !.threw = FALSE])))

enrichProduction(production, craft, configured, reply, faults) ==
  Let(locationsToEnrich(production.locations), LAMBDA toEnrich :
  Let(NewRun(production, craft), LAMBDA e :
    IF ~configured THEN e
    ELSE IF Len(toEnrich) = 0 THEN e
    ELSE Let([e EXCEPT !.prompts = <<PromptFor(production, toEnrich)>>], LAMBDA asked :
           IF reply.kind # "list" THEN asked
           ELSE [ApplyEnriched(asked, toEnrich, reply.list, faults, 1)
                   EXCEPT !.threw = FALSE])))

(***************************************************************************)
(* EnrichmentMerger, the one-request-per-location version of geminiService *)
(***************************************************************************)
\* enrichLocationData: the decoded reply, with transportDesc forced to 'N/A'
\* when there is no next address; [ok |-> FALSE] stands for the null returned
\* from the catch block
enrichLocationData(reply, nextAddress) ==
  IF reply.kind \in {"throw", "invalid"} THEN [ok |-> FALSE]
  ELSE LET data == IF reply.kind = "object" THEN reply.object ELSE EmptyObject
       IN  [ok |-> TRUE,
            data |-> IF Truthy(nextAddress) THEN data
                     ELSE [k \in (DOMAIN data) \cup {transportDesc} |->
                             IF k = transportDesc THEN sNA ELSE data[k]]]

\* the body of `for (let i = 0; i < locations.length; i++)`, from the 1-based
\* i on; an exception of the write-back leaves enrichProduction
RECURSIVE EnrichEach(_, _, _, _)
EnrichEach(e, reply, faults, i) ==
  LET locations == e.production.locations
  IN  IF e.threw \/ i > Len(locations) THEN e
      ELSE IF ~needsEnrichment(locations[i].gemData) \/ ~Truthy(AddressOf(locations[i]))
      THEN EnrichEach(e, reply, faults, i + 1)
      ELSE LET nextAddress == NextAddress(locations, i)
               prompt == [date |-> OrElse(Get(e.production.properties, "date_of_shoot"), sToday),
                          locations |-> << IF Truthy(nextAddress)
                                           THEN [address |-> AddressOf(locations[i]),
                                                 next |-> nextAddress]
                                           ELSE [address |-> AddressOf(locations[i])] >>]
               tableId == locations[i].tableId
           IN  Let([e EXCEPT !.prompts = Append(@, prompt)], LAMBDA asked :
               Let(enrichLocationData(reply, nextAddress), LAMBDA enrichedData :
               Let(IF ~enrichedData.ok THEN asked
                   ELSE Let([asked EXCEPT !.production.locations[i].gemData =
                                             MergedGemData(enrichedData.data),
                                           !.merged = Append(@, [location |-> i,
                                                                 data |-> enrichedData.data])],
                            LAMBDA merged :
                          IF Truthy(tableId)
                          THEN updateLocationWithGemData(merged, tableId, enrichedData.data,
                                                         faults)
                          ELSE merged), LAMBDA done :
               EnrichEach(done, reply, faults, i + 1))))

enrichProductionPerLocation(production, craft, configured, reply, faults) ==
  IF ~configured THEN NewRun(production, craft)
  ELSE Let(NewRun(production, craft), LAMBDA e : EnrichEach(e, reply, faults, 1))

(***************************************************************************)
(* craftService.getProductions                                             *)
(***************************************************************************)
sDay == <<"d", "a", "y">>

\* whether the text matches /^\s*-\s*Day\s*\d+$/i
IsDaySuffix(t) ==
  LET a == TrimStart(t)
      b == IF a # <<>> /\ Head(a) = "-" THEN TrimStart(Tail(a)) ELSE <<>>
      c == IF Len(b) >= 3 /\ toLowerCase(SubSeq(b, 1, 3)) = sDay
           THEN TrimStart(SubSeq(b, 4, Len(b))) ELSE <<>>
  IN  c # <<>> /\ \A i \in 1..Len(c) : c[i] \in Digits

\* itemTitle.replace(/\s*-\s*Day\s*\d+$/i, '').trim() || itemTitle
BaseTitle(itemTitle) ==
  LET starts == {i \in 1..Len(itemTitle) : IsDaySuffix(SubSeq(itemTitle, i, Len(itemTitle)))}
      cut == IF starts = {} THEN itemTitle ELSE SubSeq(itemTitle, 1, Min(starts) - 1)
  IN  OrElse(trim(cut), itemTitle)

ItemTitle(item) == OrElse(Get(item, "production_title"), Get(item, "title"))

\* the entry pushed to grouped[baseTitle].days; an undefined date is not
\* serialised
DayOf(item) ==
  LET properties == parseProduction(item).properties
      shootDay == IF "shoot_day_" \in DOMAIN properties /\ properties.shoot_day_ # 0
                  THEN properties.shoot_day_ ELSE 1
      day == [id |-> item.id, shootDay |-> shootDay, fullTitle |-> ItemTitle(item)]
  IN  IF "date_of_shoot" \notin DOMAIN properties THEN day
      ELSE [k \in (DOMAIN day) \cup {"date"} |->
              IF k = "date" THEN properties.date_of_shoot ELSE day[k]]

\* days.sort((a, b) => a.shootDay - b.shootDay): a stable insertion
RECURSIVE SortDays(_)
SortDays(days) ==
  IF days = <<>> THEN <<>>
  ELSE LET rest == SortDays(SubSeq(days, 1, Len(days) - 1))
           d == days[Len(days)]
           k == Cardinality({i \in 1..Len(rest) : rest[i].shootDay <= d.shootDay})
       IN  SubSeq(rest, 1, k) \o <<d>> \o SubSeq(rest, k + 1, Len(rest))

\* the positions of the items that have a title
Titled(items) == {i \in 1..Len(items) : Truthy(ItemTitle(items[i]))}

\* Object.values(grouped): one group per base title, in order of first use
RECURSIVE GroupsFrom(_, _, _)
GroupsFrom(items, order, seen) ==
  IF order = <<>> THEN <<>>
  ELSE LET base == BaseTitle(ItemTitle(items[Head(order)]))
           mine == SelectSeq(order, LAMBDA i : BaseTitle(ItemTitle(items[i])) = base)
       IN  IF base \in seen THEN GroupsFrom(items, Tail(order), seen)
           ELSE <<[title |-> base,
                   days |-> SortDays([j \in 1..Len(mine) |-> DayOf(items[mine[j]])])]>>
                \o GroupsFrom(items, Tail(order), seen \cup {base})

getProductions(craft, up) ==
  LET order == Ascending(Titled(craft.items))
  IN  IF ~up THEN Threw("Failed to fetch collections")
      ELSE IF \E i \in Titled(craft.items) : parseProductionWalk(craft.items[i]).threw
      THEN Threw("TypeError")
      ELSE Returned([productions |-> [j \in 1..Len(order) |->
                                        parseProduction(craft.items[order[j]])],
                     grouped |-> GroupsFrom(craft.items, order, {})])

(***************************************************************************)
(* The routes. A handler maps the store, the deployment and a request to   *)
(* the response and the store it leaves behind. A request is               *)
(*   [route, id, enrich, body, up, answer, faults]                         *)
(* where enrich tells whether the query has enrich=false ("false") or not, *)
(* body is the JSON body, up whether the document store answers, answer    *)
(* the knowledge-service reply and faults the failing table requests.      *)
(***************************************************************************)
Response(status, body) == [status |-> status, body |-> body]

\* geminiService.enrichProduction of the deployed version
DeployedEnrich(deploy, production, craft, req) ==
  Let(req.answer, LAMBDA answer :
    IF deploy.gemini = "batch"
    THEN enrichProduction(production, craft, deploy.apiKey, answer, req.faults)
    ELSE enrichProductionPerLocation(production, craft, deploy.apiKey, answer, req.faults))

\* production.locations?.some(loc => needsEnrichment(loc.gemData))
NeedsEnrich(production) ==
  \E i \in 1..Len(production.locations) : needsEnrichment(production.locations[i].gemData)

LoadAndEnrich_ignoresFlag(craft, deploy, req) ==
  Let(getProductionById(craft, req.id, req.up), LAMBDA got :
    IF got.threw THEN [NewRun(null, craft) EXCEPT !.threw = TRUE]
    ELSE IF NeedsEnrich(got.value)
    THEN DeployedEnrich(deploy, got.value, craft, req)
    ELSE NewRun(got.value, craft))

\* lines 112-124 of both versions of GET /production/:id: the production that
\* is about to be sent, or the exception that reaches the catch block
LoadAndEnrich(craft, deploy, req) ==
  Let(getProductionById(craft, req.id, req.up), LAMBDA got :
    IF got.threw THEN [NewRun(null, craft) EXCEPT !.threw = TRUE]
    ELSE IF req.enrich # "false" /\ NeedsEnrich(got.value)
    THEN DeployedEnrich(deploy, got.value, craft, req)
    ELSE NewRun(got.value, craft))

\* lines 189-196 of both versions of POST /production/:id/enrich
ClearAndEnrich(craft, deploy, req) ==
  Let(getProductionById(craft, req.id, req.up), LAMBDA got :
    IF got.threw THEN [NewRun(null, craft) EXCEPT !.threw = TRUE]
    ELSE Let([got.value EXCEPT !.locations =
                [i \in 1..Len(@) |-> [@[i] EXCEPT !.gemData = EmptyObject]]],
             LAMBDA cleared : DeployedEnrich(deploy, cleared, craft, req)))

\* ---- the sanitizing api.js ----
GetProductionsHandler(craft, deploy, req) ==
  Let(getProductions(craft, req.up), LAMBDA data :
    [craft |-> craft,
     reply |-> IF data.threw
               THEN Response(500, [error |-> "Failed to fetch productions"])
               ELSE Response(200, [grouped |-> data.value.grouped])])

GetProductionHandler(craft, deploy, req) ==
  Let(LoadAndEnrich(craft, deploy, req), LAMBDA r :
    [craft |-> r.craft,
     reply |-> IF r.threw
               THEN Response(500, [error |-> "Failed to fetch production"])
               ELSE Response(200, sanitizeProduction(r.production))])

AuthenticateHandler_revealing(craft, deploy, req) ==
  LET phone == Get(req.body, "phone")
  IN  [craft |-> craft,
       reply |->
         IF ~Truthy(phone)
         THEN Response(400, [error |-> "Phone number required", authenticated |-> FALSE])
         ELSE Let(getProductionById(craft, req.id, req.up), LAMBDA got :
           IF got.threw THEN Response(500, [error |-> "Failed to authenticate"])
           ELSE Let(findUserByPhone(got.value, phone), LAMBDA userInfo :
             Response(200, [authenticated |-> userInfo # null, userInfo |-> userInfo,
                                 production |-> JsonClone(got.value),
                                 isClosedSet |-> ClosedSetIsTrue(got.value)])))]

AuthenticateHandler(craft, deploy, req) ==
  LET phone == Get(req.body, "phone")
  IN  [craft |-> craft,
       reply |->
         IF ~Truthy(phone)
         THEN Response(400, [error |-> "Phone number required", authenticated |-> FALSE])
         ELSE Let(getProductionById(craft, req.id, req.up), LAMBDA got :
           IF got.threw THEN Response(500, [error |-> "Failed to authenticate"])
           ELSE Let(findUserByPhone(got.value, phone), LAMBDA userInfo :
             IF userInfo = null
             THEN Response(200, [authenticated |-> FALSE, userInfo |-> null,
                                 production |-> sanitizeProduction(got.value),
                                 isClosedSet |-> FALSE])
             ELSE Response(200, [authenticated |-> TRUE, userInfo |-> userInfo,
                                 production |-> JsonClone(got.value),
                                 isClosedSet |-> ClosedSetIsTrue(got.value)])))]

EnrichHandler(craft, deploy, req) ==
  Let(ClearAndEnrich(craft, deploy, req), LAMBDA r :
    [craft |-> r.craft,
     reply |-> IF r.threw
               THEN Response(500, [error |-> "Failed to enrich production"])
               ELSE Response(200, [success |-> TRUE,
                                   production |-> sanitizeProduction(r.production)])])

\* ---- the legacy api.js (src/server/routes/api.js) ----
LegacyGetProductionsHandler(craft, deploy, req) ==
  Let(getProductions(craft, req.up), LAMBDA data :
    [craft |-> craft,
     reply |-> IF data.threw
               THEN Response(500, [error |-> "Failed to fetch productions"])
               ELSE Response(200, [productions |->
                                     [i \in 1..Len(data.value.productions) |->
                                        JsonClone(data.value.productions[i])],
                                   grouped |-> data.value.grouped])])

LegacyGetProductionHandler(craft, deploy, req) ==
  Let(LoadAndEnrich(craft, deploy, req), LAMBDA r :
    [craft |-> r.craft,
     reply |-> IF r.threw
               THEN Response(500, [error |-> "Failed to fetch production"])
               ELSE Response(200, JsonClone(r.production))])

LegacyEnrichHandler(craft, deploy, req) ==
  Let(ClearAndEnrich(craft, deploy, req), LAMBDA r :
    [craft |-> r.craft,
     reply |-> IF r.threw
               THEN Response(500, [error |-> "Failed to enrich production"])
               ELSE Response(200, [success |-> TRUE,
                                   production |-> JsonClone(r.production)])])

(***************************************************************************)
(* State                                                                   *)
(***************************************************************************)
VARIABLES
  craft,       \* the document store: [items |-> the collection's items]
  deploy,      \* what is deployed: [routes, gemini, apiKey]; routes is the
               \* api.js in use ("sanitizing" or "legacy"), gemini the
               \* geminiService in use ("batch" or "perLocation"), apiKey
               \* whether GEMINI_API_KEY is set (initGemini returns a model)
  request,     \* the HTTP request being answered, with the store it met
  reply,       \* the HTTP response sent for it
  held,        \* a production object held in memory by a caller of enrich
  stub,        \* the fixed reply of a knowledge-service stub
  runs,        \* one record per finished enrichProduction call on `held`
  app,         \* the client: App.state, the active screen, the skip option
  gate         \* an input and the result of one needsEnrichment call

vars == <<craft, deploy, request, reply, held, stub, runs, app, gate>>

\* values of the variables a scenario does not use
NoCraft == [items |-> <<>>]
NoDeploy == [routes |-> "none"]
NoRequest == [route |-> "none"]
NoReply == [status |-> 0]
NoHeld == [locations |-> <<>>]
NoStub == [kind |-> "none"]
NoApp == [screen |-> "none"]
NoGate == [pc |-> "none"]

(***************************************************************************)
(* Bounds of the model                                                     *)
(***************************************************************************)
\* most keys of a gemData input that differ from its base (all set / none set)
MaxGateOverrides == 2

\* most crew and cast members of a document, taken together
MaxMembers == 2

\* most location sub-sections of a document
MaxLocations == 3

\* most results in a knowledge-service reply list
MaxReplyLen == 2

\* most enrichProduction calls on the held production
MaxEnrichCalls == 2

(***************************************************************************)
(* Scenario: one needsEnrichment call on an arbitrary gemData              *)
(***************************************************************************)
sGEMextra == <<"G", "E", "M", "e", "x", "t", "r", "a">>

\* the ten GEM keys and a key that needsEnrichment does not list
GateKeys ==
  {requiredFields[i] : i \in 1..Len(requiredFields)} \cup {sGEMextra}

\* what a key of the input may hold; undefined stands for "key absent"
GateValues == {undefined, <<>>, <<"\t", " ">>, <<"x">>, <<" ", "x", " ">>}

\* the base with `over` laid on top; a key laid to undefined is removed
Overlay(base, over) ==
  [k \in {q \in (DOMAIN base) \cup (DOMAIN over) :
            IF q \in DOMAIN over THEN over[q] # undefined ELSE TRUE} |->
     IF k \in DOMAIN over THEN over[k] ELSE base[k]]

GateBases ==
  {EmptyObject, [k \in {requiredFields[i] : i \in 1..Len(requiredFields)} |-> <<"o", "k">>]}

InitGate ==
  /\ \E base \in GateBases :
       \E K \in {S \in SUBSET GateKeys : Cardinality(S) <= MaxGateOverrides} :
         \E over \in [K -> GateValues] :
            gate = [pc |-> "ready", gemData |-> Overlay(base, over)]
  /\ craft = NoCraft /\ deploy = NoDeploy /\ request = NoRequest
  /\ reply = NoReply /\ held = NoHeld /\ stub = NoStub /\ runs = <<>>
  /\ app = NoApp

\* a caller evaluates needsEnrichment(gemData)
CallNeedsEnrichment ==
  /\ gate.pc = "ready"
  /\ gate' = [pc |-> "done", gemData |-> gate.gemData,
              result |-> needsEnrichment(gate.gemData)]
  /\ UNCHANGED <<craft, deploy, request, reply, held, stub, runs, app>>

NextGate == CallNeedsEnrichment

SpecGate == InitGate /\ [][NextGate]_vars

\* a text that is empty once whitespace is trimmed: it has no other character
OnlyWhiteSpace(v) == \A i \in 1..Len(v) : v[i] \in WhiteSpace

TenGemKeys ==
  {sGEM \o f : f \in {nearestHospital, nearestFireStation, nearestPoliceStation,
                      nearestEmergencyAfterHours, sunriseTime, sunsetTime,
                      weatherTemp, weatherDesc, publicTransportInfo, transportDesc}}

\* C10: needsEnrichment(gemData) is true iff one of the ten GEM keys is absent
\* from gemData or holds a text that is empty after trimming; keys other than
\* the ten have no influence on the result
C10_NeedsEnrichmentIff ==
  gate.pc = "done" =>
    /\ gate.result = (\E k \in TenGemKeys :
                        k \notin DOMAIN gate.gemData \/ OnlyWhiteSpace(gate.gemData[k]))
    /\ gate.result = needsEnrichment([k \in (DOMAIN gate.gemData) \cap TenGemKeys |->
                                        gate.gemData[k]])

\* a call that returned false although keys outside the ten are blank, and a
\* call that returned true only because of a whitespace-only value
C10_Witness ==
  /\ gate.pc = "done"
  /\ \/ /\ gate.result = FALSE
        /\ sGEMextra \in DOMAIN gate.gemData /\ gate.gemData[sGEMextra] = <<>>
     \/ /\ gate.result = TRUE
        /\ TenGemKeys \subseteq DOMAIN gate.gemData
        /\ \A k \in TenGemKeys : gate.gemData[k] # <<>>

(***************************************************************************)
(* Documents of the store                                                  *)
(***************************************************************************)
Cell(v) == [value |-> v, attributes |-> <<>>]
Heading(style, markdown) == [type |-> "text", textStyle |-> style, markdown |-> markdown]
Table(id, rows) == [type |-> "table", id |-> id, rows |-> rows]

sP1 == <<"p", "1">>
sP2 == <<"p", "2">>
sNoSuchId == <<"p", "9">>
sFilmDay1 == <<"F", "i", "l", "m", " ", "-", " ", "D", "a", "y", " ", "1">>
sFilmDay2 == <<"F", "i", "l", "m", " ", "-", " ", "d", "a", "y", "2">>
sCrewHeading == <<"#", " ", "C", "r", "e", "w">>
sCastHeading == <<"#", " ", "C", "a", "s", "t">>
sLocationsHeading == <<"#", " ", "L", "o", "c", "a", "t", "i", "o", "n", "s">>
sScenesHeading == <<"#", " ", "S", "c", "e", "n", "e", "s">>
sLocationHeading == <<"#", "#", " ", "L", "o", "c", "a", "t", "i", "o", "n">>
sCrewTable == <<"t", "c">>
sCastTable == <<"t", "k">>
sScenesTable == <<"t", "s">>
OneToNine == <<"1", "2", "3", "4", "5", "6", "7", "8", "9">>

\* the Phone cells a crew or cast row may carry
MemberPhones == {<<>>, <<"0", "4">>, <<"0", " ", "4">>, <<"4", "0">>}

\* a crew or cast table: the header row, then one row per phone; with
\* lowerColumn the table also has a column headed `phone`
PeopleTable(id, roleHeader, initial, phones, lowerColumn) ==
  Table(id,
    << <<Cell(roleHeader), Cell(sName), Cell(sPhone), Cell(sCallTime)>>
         \o (IF lowerColumn THEN <<Cell(sphone)>> ELSE <<>>) >>
    \o [i \in 1..Len(phones) |->
          <<Cell(<<"r">>), Cell(<<initial, OneToNine[i]>>), Cell(phones[i]), Cell(<<"7">>)>>
            \o (IF lowerColumn THEN <<Cell(<<"5", "5">>)>> ELSE <<>>)])

sAddress == <<"1", " ", "M", "a", "i", "n">>
sOldValue == <<"o", "l", "d">>
sNote == <<"n", "o", "t", "e">>

\* the key/value table of a location sub-section:
\*   "fresh"  an address, the ten GEM rows empty
\*   "done"   an address, the ten GEM rows filled
\*   "stale"  an address, nine GEM rows filled (one of them followed by a
\*            third cell) and the last holding only blanks, then a row
\*            GEMnote
\*   "noaddr" no address, the ten GEM rows empty
LocationKinds == {"fresh", "done", "stale", "noaddr"}

LocationTable(n, kind) ==
  Table(<<"t", OneToNine[n]>>,
    << <<Cell(sLocationAddress),
         Cell(IF kind = "noaddr" THEN <<>> ELSE sAddress \o <<OneToNine[n]>>)>> >>
    \o [i \in 1..Len(ResultFields) |->
          <<Cell(GemKey(ResultFields[i])),
            Cell(CASE kind \in {"fresh", "noaddr"} -> <<>>
                   [] kind = "done" -> sOldValue
                   [] kind = "stale" -> IF i = 10 THEN <<" ">> ELSE sOldValue)>>
            \o (IF kind = "stale" /\ i = 8 THEN <<Cell(<<"x">>)>> ELSE <<>>)]
    \o (IF kind = "stale" THEN << <<Cell(sGEM \o sNote), Cell(sOldValue)>> >> ELSE <<>>))

LocationBlocks(kinds) ==
  IF Len(kinds) = 0 THEN <<>>
  ELSE [b \in 1..(2 * Len(kinds)) |->
          IF b % 2 = 1 THEN Heading("h2", sLocationHeading \o <<" ", OneToNine[(b + 1) \div 2]>>)
          ELSE LocationTable(b \div 2, kinds[b \div 2])]

ScenesTable ==
  Table(sScenesTable, << <<Cell(sScene), Cell(sLocation)>>, <<Cell(<<"1">>), Cell(<<"x">>)>> >>)

\* the content of a call-sheet document
Content(crewPhones, castPhones, lowerColumn, kinds) ==
  << Heading("h1", sCrewHeading),
     PeopleTable(sCrewTable, sRole, "A", crewPhones, lowerColumn),
     Heading("h1", sCastHeading),
     PeopleTable(sCastTable, sCharacter, "B", castPhones, lowerColumn),
     Heading("h1", sLocationsHeading) >>
  \o LocationBlocks(kinds)
  \o << Heading("h1", sScenesHeading), ScenesTable >>

\* item.properties; closedSet is TRUE, FALSE or "absent"
Properties(closedSet) ==
  IF closedSet = "absent" THEN [shoot_day_ |-> 1, date_of_shoot |-> <<"d">>]
  ELSE [shoot_day_ |-> 1, date_of_shoot |-> <<"d">>, closed_set |-> (closedSet = "yes")]

\* the store: the call sheet of day 1 and an empty item for day 2
Store(crewPhones, castPhones, lowerColumn, closedSet, kinds) ==
  [items |->
     << [id |-> sP1, title |-> sFilmDay1, properties |-> Properties(closedSet),
         content |-> Content(crewPhones, castPhones, lowerColumn, kinds)],
        [id |-> sP2, title |-> sFilmDay2, properties |-> [shoot_day_ |-> 2]] >>]

\* the sequences over S of length n
RECURSIVE SeqsOfLen(_, _)
SeqsOfLen(S, n) ==
  IF n = 0 THEN {<<>>}
  ELSE {Append(q, x) : q \in SeqsOfLen(S, n - 1), x \in S}

SeqsUpTo(S, n) == UNION {SeqsOfLen(S, k) : k \in 0..n}

\* a result of the knowledge service with every field set to v, except the
\* fields in `blank`, which are set to w
Result(v, blank, w) ==
  [f \in {ResultFields[i] : i \in 1..Len(ResultFields)} |-> IF f \in blank THEN w ELSE v]

sNew == <<"n", "e", "w">>
AnswerList(results) == [kind |-> "list", list |-> results]
AnswerObject(result) == [kind |-> "object", object |-> result]
AnswerInvalid == [kind |-> "invalid"]
AnswerThrow == [kind |-> "throw"]
NoFaults == [read |-> {}, write |-> {}]

(***************************************************************************)
(* Scenario: sanitizeProduction and findUserByPhone on a parsed production *)
(***************************************************************************)
\* the phone arguments of findUserByPhone
CallerPhones ==
  {undefined, <<>>, <<"-">>, <<"0", "4">>, <<"(", "0", "4", ")">>, <<"4", "0">>, <<"7">>}

InitLookup ==
  /\ \E crewPhones \in SeqsUpTo(MemberPhones, MaxMembers) :
       \E castPhones \in SeqsUpTo(MemberPhones, MaxMembers - Len(crewPhones)) :
         \E lowerColumn \in BOOLEAN :
            /\ craft = Store(crewPhones, castPhones, lowerColumn, "yes", <<"fresh">>)
            /\ held = parseProduction(
                        Store(crewPhones, castPhones, lowerColumn, "yes", <<"fresh">>).items[1])
  /\ request = NoRequest /\ reply = NoReply
  /\ deploy = NoDeploy
  /\ stub = NoStub /\ runs = <<>> /\ app = NoApp /\ gate = NoGate

\* sanitizeProduction(held): the argument is cloned, never written
Sanitize ==
  /\ request' = [route |-> "sanitize", production |-> held]
  /\ reply' = sanitizeProduction(held)
  /\ UNCHANGED <<held, craft, deploy, stub, runs, app, gate>>

\* findUserByPhone(held, phone)
FindUser ==
  /\ \E phone \in CallerPhones :
       /\ request' = [route |-> "findUser", production |-> held, phone |-> phone]
       /\ reply' = findUserByPhone(held, phone)
  /\ UNCHANGED <<held, craft, deploy, stub, runs, app, gate>>

\* POST /api/production/p1/authenticate with the phone as the body's phone
\* (no phone property when it is undefined); the store holds `held`
AuthenticateHeld ==
  /\ \E phone \in CallerPhones :
       \E req \in {[route |-> "authenticate", id |-> sP1, up |-> TRUE,
                    body |-> IF phone = undefined THEN EmptyObject
                             ELSE [phone |-> phone]]} :
         /\ request' = req
         /\ reply' = AuthenticateHandler(craft, deploy, req).reply
  /\ UNCHANGED <<held, craft, deploy, stub, runs, app, gate>>

NextLookup ==
  \/ Sanitize
  \/ FindUser
  \/ AuthenticateHeld

SpecLookup == InitLookup /\ [][NextLookup]_vars

\* the fields of a crew or cast record other than the two phone spellings
OtherFields(member) == (DOMAIN member) \ {sPhone, sphone}

SameButPhones(before, after) ==
  /\ Len(after) = Len(before)
  /\ \A i \in 1..Len(before) :
       /\ DOMAIN after[i] = OtherFields(before[i])
       /\ \A k \in OtherFields(before[i]) : after[i][k] = before[i][k]

SameButPhone(before, after) ==
  /\ Len(after) = Len(before)
  /\ \A i \in 1..Len(before) :
       /\ DOMAIN after[i] = (DOMAIN before[i]) \ {sPhone}
       /\ \A k \in (DOMAIN before[i]) \ {sPhone} : after[i][k] = before[i][k]

SameRest(before, after) ==
  /\ DOMAIN after = DOMAIN before
  /\ \A k \in (DOMAIN before) \ {"crew", "cast"} : after[k] = before[k]

\* C3 as stated: sanitize drops Phone and nothing else from the crew and cast
\* records, keeps properties, locations, scenes, id and title, and leaves its
\* argument as it was.
C3_OnlyPhoneDropped ==
  request.route = "sanitize" =>
    /\ SameButPhone(request.production.crew, reply.crew)
    /\ SameButPhone(request.production.cast, reply.cast)
    /\ SameRest(request.production, reply)
    /\ held = request.production

\* C3: sanitize returns a copy in which no crew or cast record has a Phone or
\* a phone field, every other field of every record and properties (with
\* closed_set), locations, scenes, id and title equal the input, and the
\* argument still carries its Phone fields afterwards.
C3_SanitizeFrame ==
  request.route = "sanitize" =>
    /\ SameButPhones(request.production.crew, reply.crew)
    /\ SameButPhones(request.production.cast, reply.cast)
    /\ SameRest(request.production, reply)
    /\ reply.properties.closed_set = TRUE
    /\ held = request.production
    /\ \A i \in 1..Len(held.crew) : sPhone \in DOMAIN held.crew[i]
    /\ \A i \in 1..Len(held.cast) : sPhone \in DOMAIN held.cast[i]

C3_Witness ==
  /\ request.route = "sanitize"
  /\ Len(held.crew) > 0 /\ Len(held.cast) > 0
  /\ sphone \in DOMAIN held.crew[1]
  /\ Truthy(held.crew[1][sPhone])
  /\ sPhone \notin DOMAIN reply.crew[1]
  /\ sName \in DOMAIN reply.cast[1]

\* the digits of a text, in order
RECURSIVE DigitsOnly(_)
DigitsOnly(text) ==
  IF text = undefined \/ Len(text) = 0 THEN <<>>
  ELSE IF Head(text) \in {"0", "1", "2", "3", "4", "5", "6", "7", "8", "9"}
  THEN <<Head(text)>> \o DigitsOnly(Tail(text))
  ELSE DigitsOnly(Tail(text))

\* the crew members followed by the cast members, each with its kind
Scanned(production) ==
  [i \in 1..Len(production.crew) |-> [type |-> sCrew, member |-> production.crew[i]]]
    \o [i \in 1..Len(production.cast) |-> [type |-> sCast, member |-> production.cast[i]]]

SamePhone(entry, phone) == DigitsOnly(Get(entry.member, sPhone)) = DigitsOnly(phone)

FirstSamePhone(production, phone) ==
  LET all == Scanned(production)
  IN  CHOOSE i \in 1..Len(all) :
        /\ SamePhone(all[i], phone)
        /\ \A j \in 1..(i - 1) : ~SamePhone(all[j], phone)

sSpacedNumber ==
  <<"(", "0", "4", ")", " ", "1", "2", "-", "3", "4", "5", " ", "6", "7", "8">>

sPlainNumber == <<"0", "4", "1", "2", "3", "4", "5", "6", "7", "8">>

\* what findUser answers for the entry it stopped at
AnswerFor(entry) ==
  /\ reply # null
  /\ reply.type = entry.type
  /\ reply.name = entry.member[sName]
  /\ reply.callTime = entry.member[sCallTime]
  /\ IF entry.type = sCrew THEN reply.role = entry.member[sRole]
     ELSE reply.character = entry.member[sCharacter]

\* C6 as stated: the answer is null exactly when no member's digits equal the
\* caller's digits, and otherwise describes the first such member, crew
\* before cast.
C6_NullIffNoEqualDigits ==
  request.route = "findUser" =>
    LET all == Scanned(request.production)
        some == \E i \in 1..Len(all) : SamePhone(all[i], request.phone)
    IN  /\ (reply = null) <=> ~some
        /\ some => AnswerFor(all[FirstSamePhone(request.production, request.phone)])

\* C6: findUser compares digit-only projections and answers with the first
\* match, crew in list order and then cast in list order; the answer is null
\* iff the caller's digits are empty or no member's digits equal them.
C6_FirstMatchCrewThenCast ==
  /\ normalizePhone(sSpacedNumber) = sPlainNumber
  /\ normalizePhone(sPlainNumber) = sPlainNumber
  /\ normalizePhone(undefined) = <<>> /\ normalizePhone(<<>>) = <<>>
  /\ request.route = "findUser" =>
       LET all == Scanned(request.production)
           some == \E i \in 1..Len(all) : SamePhone(all[i], request.phone)
       IN  /\ (reply = null) <=> (DigitsOnly(request.phone) = <<>> \/ ~some)
           /\ (DigitsOnly(request.phone) # <<>> /\ some) =>
                AnswerFor(all[FirstSamePhone(request.production, request.phone)])

\* a crew member and a cast member carry the caller's number in different
\* spellings, and the crew member is the answer
C6_Witness ==
  /\ request.route = "findUser"
  /\ request.phone = <<"(", "0", "4", ")">>
  /\ Len(held.crew) = 1 /\ Len(held.cast) = 1
  /\ held.crew[1][sPhone] = <<"0", " ", "4">>
  /\ held.cast[1][sPhone] = <<"0", "4">>
  /\ reply # null /\ reply.type = sCrew

(***************************************************************************)
(* Scenario: HTTP requests against a deployed server                       *)
(***************************************************************************)
\* the JSON bodies a caller posts to /authenticate
CallerBodies ==
  << EmptyObject, [phone |-> <<>>], [phone |-> <<"0", "4">>],
     [phone |-> <<"(", "0", "4", ")">>], [phone |-> <<"7">>] >>

\* the knowledge service answers in the shape the deployed service asks for
GoodAnswer(dep) ==
  IF dep.gemini = "batch" THEN AnswerList(<<Result(sNew, {}, <<>>)>>)
  ELSE AnswerObject(Result(sNew, {}, <<>>))

\* the phone numbers on the call sheets the server holds
ServedPhones == {<<"0", " ", "4">>}

\* the two revisions of the server, with and without GEMINI_API_KEY
Deployments ==
  {[routes |-> "sanitizing", gemini |-> "batch", apiKey |-> k] : k \in BOOLEAN}
    \cup {[routes |-> "legacy", gemini |-> "perLocation", apiKey |-> k] : k \in BOOLEAN}

InitAccess ==
  /\ \E crewPhones \in SeqsUpTo(ServedPhones, MaxMembers) :
       \E castPhones \in SeqsUpTo(ServedPhones, MaxMembers - Len(crewPhones)) :
         \E lowerColumn \in BOOLEAN, closedSet \in {"yes", "no", "absent"} :
            craft = Store(crewPhones, castPhones, lowerColumn, closedSet, <<"fresh">>)
  /\ deploy \in Deployments
  /\ request = NoRequest /\ reply = NoReply
  /\ held = NoHeld /\ stub = NoStub /\ runs = <<>> /\ app = NoApp /\ gate = NoGate

\* the server answers req with the handler's result h
Serve(req, h) ==
  /\ request' = [k \in (DOMAIN req) \cup {"craft"} |-> IF k = "craft" THEN craft ELSE req[k]]
  /\ \E sent \in {h} :
       /\ reply' = sent.reply
       /\ craft' = sent.craft
  /\ UNCHANGED <<deploy, held, stub, runs, app, gate>>

\* the requests for a list of productions
ListRequest(up) == [route |-> "list", up |-> up]

\* the requests for one production, with or without enrich=false
LoadRequest(route, id, up, enrich) ==
  [route |-> route, id |-> id, up |-> up, enrich |-> enrich,
   answer |-> GoodAnswer(deploy), faults |-> NoFaults]

AuthRequest(id, up, b) ==
  [route |-> "authenticate", id |-> id, up |-> up, body |-> CallerBodies[b]]

\* GET /api/productions
GetProductions ==
  /\ deploy.routes = "sanitizing"
  /\ \E up \in BOOLEAN :
       Serve(ListRequest(up), GetProductionsHandler(craft, deploy, ListRequest(up)))

\* GET /api/production/:id
GetProduction ==
  /\ deploy.routes = "sanitizing"
  /\ \E id \in {sP1, sNoSuchId}, up \in BOOLEAN, enrich \in {"false", "true"} :
       /\ (id # sP1 \/ ~up) => enrich = "true"
       /\ ~(id # sP1 /\ ~up)
       /\ Serve(LoadRequest("get", id, up, enrich),
                GetProductionHandler(craft, deploy, LoadRequest("get", id, up, enrich)))

\* POST /api/production/:id/authenticate
Authenticate ==
  /\ deploy.routes = "sanitizing"
  /\ \E id \in {sP1, sNoSuchId}, up \in BOOLEAN, b \in 1..Len(CallerBodies) :
       /\ (id # sP1 \/ ~up) => b = 3
       /\ ~(id # sP1 /\ ~up)
       /\ Serve(AuthRequest(id, up, b), AuthenticateHandler(craft, deploy, AuthRequest(id, up, b)))

\* POST /api/production/:id/enrich
Enrich ==
  /\ deploy.routes = "sanitizing"
  /\ \E id \in {sP1, sNoSuchId} :
       Serve(LoadRequest("enrich", id, TRUE, "true"),
             EnrichHandler(craft, deploy, LoadRequest("enrich", id, TRUE, "true")))

\* GET /api/productions of the legacy api.js
LegacyGetProductions ==
  /\ deploy.routes = "legacy"
  /\ \E up \in BOOLEAN :
       Serve(ListRequest(up), LegacyGetProductionsHandler(craft, deploy, ListRequest(up)))

\* GET /api/production/:id of the legacy api.js
LegacyGetProduction ==
  /\ deploy.routes = "legacy"
  /\ \E id \in {sP1, sNoSuchId}, up \in BOOLEAN, enrich \in {"false", "true"} :
       /\ (id # sP1 \/ ~up) => enrich = "true"
       /\ ~(id # sP1 /\ ~up)
       /\ Serve(LoadRequest("get", id, up, enrich),
                LegacyGetProductionHandler(craft, deploy, LoadRequest("get", id, up, enrich)))

\* POST /api/production/:id/enrich of the legacy api.js
LegacyEnrich ==
  /\ deploy.routes = "legacy"
  /\ \E id \in {sP1, sNoSuchId} :
       Serve(LoadRequest("enrich", id, TRUE, "true"),
             LegacyEnrichHandler(craft, deploy, LoadRequest("enrich", id, TRUE, "true")))

NextAccess ==
  \/ GetProductions
  \/ GetProduction
  \/ Authenticate
  \/ Enrich
  \/ LegacyGetProductions
  \/ LegacyGetProduction
  \/ LegacyEnrich

SpecAccess == InitAccess /\ [][NextAccess]_vars

\* the production the last request asked for, as the store held it
Asked == getProductionById(request.craft, request.id, request.up)

CallerPhone == Get(request.body, "phone")

Members(production) == production.crew \o production.cast

\* C1, C4: the crew and cast records of a production that carry a phone value
WithPhone(production) ==
  {i \in 1..Len(Members(production)) :
     Truthy(Get(Members(production)[i], sPhone)) \/ Truthy(Get(Members(production)[i], sphone))}

\* the reply of authenticate(production, phone) that claim C1 describes
AuthOutcome ==
  LET found == findUserByPhone(Asked.value, CallerPhone)
      properties == Asked.value.properties
  IN  /\ reply.status = 200
      /\ DOMAIN reply.body = {"authenticated", "userInfo", "production", "isClosedSet"}
      /\ IF found # null
         THEN /\ reply.body.authenticated = TRUE
              /\ reply.body.userInfo = found
              /\ reply.body.production.crew = Asked.value.crew
              /\ reply.body.production.cast = Asked.value.cast
              /\ SameRest(Asked.value, reply.body.production)
              /\ WithPhone(reply.body.production) = 1..Len(Members(Asked.value))
              /\ reply.body.isClosedSet =
                   ("closed_set" \in DOMAIN properties /\ properties.closed_set = TRUE)
         ELSE /\ reply.body.authenticated = FALSE
              /\ reply.body.userInfo = null
              /\ reply.body.production = sanitizeProduction(Asked.value)
              /\ WithPhone(reply.body.production) = {}
              /\ reply.body.isClosedSet = FALSE

\* C1 as stated: whatever the phone, a match gives authenticated=true with
\* userInfo, the full production and the closed-set flag, and no match gives
\* authenticated=false, userInfo=null, the sanitized production and
\* isClosedSet=false.
C1_EveryPhoneAnswered ==
  (request.route = "authenticate" /\ ~Asked.threw) => AuthOutcome

\* C1: for a non-empty phone, a match gives authenticated=true with the
\* matched userInfo, the full production (Phone fields present) and
\* isClosedSet = (closed_set === true), and no match gives
\* authenticated=false, userInfo=null, the sanitized production and
\* isClosedSet=false; a missing or empty phone gives status 400 with
\* authenticated=false and neither userInfo nor production nor isClosedSet.
C1_AuthenticateContract ==
  request.route = "authenticate" =>
    /\ ~Truthy(CallerPhone) =>
         /\ reply.status = 400
         /\ DOMAIN reply.body = {"error", "authenticated"}
         /\ reply.body.authenticated = FALSE
    /\ (Truthy(CallerPhone) /\ ~Asked.threw) => AuthOutcome

\* a caller whose phone matches nobody asks for a closed set
C1_Witness ==
  /\ request.route = "authenticate"
  /\ Truthy(CallerPhone)
  /\ reply.status = 200
  /\ reply.body.authenticated = FALSE
  /\ reply.body.isClosedSet = FALSE
  /\ reply.body.production.properties = [shoot_day_ |-> 1, date_of_shoot |-> <<"d">>,
                                         closed_set |-> TRUE]
  /\ Len(Asked.value.crew) > 0

\* the store with the closed_set property of every item negated
FlipClosedSet(store) ==
  [items |->
     [i \in 1..Len(store.items) |->
        IF "closed_set" \in DOMAIN store.items[i].properties
        THEN [store.items[i] EXCEPT !.properties.closed_set = ~@]
        ELSE store.items[i]]]

\* C2: a caller whose phone matches no member gets, from the failed
\* authenticate and from the public GET /production/:id, the reply it would
\* get if the production's closed_set were the opposite.
C2_ClosedSetConcealed ==
  (deploy.routes = "sanitizing" /\ request.route \in {"get", "authenticate"}) =>
    (~Asked.threw =>
       IF request.route = "get"
       THEN reply = GetProductionHandler(FlipClosedSet(request.craft), deploy, request).reply
       ELSE (Truthy(CallerPhone) /\ findUserByPhone(Asked.value, CallerPhone) = null) =>
              reply = AuthenticateHandler(FlipClosedSet(request.craft), deploy, request).reply)

\* the productions a reply carries
ProductionsIn(response) ==
  IF response.status # 200 THEN <<>>
  ELSE CASE request.route = "list" ->
              IF "productions" \in DOMAIN response.body THEN response.body.productions
              ELSE <<>>
         [] request.route = "get" -> <<response.body>>
         [] request.route \in {"enrich", "authenticate"} -> <<response.body.production>>

\* C4: no reply carries a phone value of a crew or cast member, except the
\* reply to an authenticate call whose phone matched a member.
C4_NoPhoneUnlessMatched ==
  (request.route \in {"list", "get", "enrich", "authenticate"}) =>
    \A i \in 1..Len(ProductionsIn(reply)) :
       WithPhone(ProductionsIn(reply)[i]) # {} =>
         /\ request.route = "authenticate"
         /\ reply.body.authenticated = TRUE

(***************************************************************************)
(* Scenario: the browser application (app.js) against a deployed server    *)
(*   app is App.state together with the active screen and the visibility   *)
(*   of the skip option                                                    *)
(***************************************************************************)
\* App.state as declared, the loading screen active
NewApp ==
  [screen |-> "loading", grouped |-> null, selectedProduction |-> null,
   selectedProductionTitle |-> null, currentProduction |-> null, userPhone |-> null,
   userInfo |-> null, isAuthenticated |-> FALSE, isClosedSet |-> FALSE,
   skipHidden |-> FALSE]

\* what the visitor types into the phone input
PhoneInputs == {<<>>, <<" ">>, <<"-">>, <<"7">>, <<"0", "4">>, <<" ", "0", "-", "4">>}

InitClient ==
  /\ \E crewPhones \in SeqsUpTo(ServedPhones, MaxMembers) :
       \E castPhones \in SeqsUpTo(ServedPhones, MaxMembers - Len(crewPhones)) :
         \E closedSet \in {"yes", "no", "absent"} :
            craft = Store(crewPhones, castPhones, FALSE, closedSet, <<"fresh">>)
  /\ deploy \in Deployments
  /\ app = NewApp
  /\ request = NoRequest /\ reply = NoReply
  /\ held = NoHeld /\ stub = NoStub /\ runs = <<>> /\ gate = NoGate

\* the server's answer to GET /api/productions
ServedList(up) ==
  IF deploy.routes = "sanitizing"
  THEN GetProductionsHandler(craft, deploy, ListRequest(up))
  ELSE LegacyGetProductionsHandler(craft, deploy, ListRequest(up))

\* the server's answer to GET /api/production/:id, from the store `from`
ServedProduction(from, id, up, enrich) ==
  IF deploy.routes = "sanitizing"
  THEN GetProductionHandler(from, deploy, LoadRequest("get", id, up, enrich))
  ELSE LegacyGetProductionHandler(from, deploy, LoadRequest("get", id, up, enrich))

\* App.loadProductions, called by App.init
LoadProductions ==
  /\ app.screen = "loading"
  /\ \E up \in BOOLEAN :
       \E sent \in {ServedList(up)} :
          app' = IF sent.reply.status # 200 THEN app
                 ELSE [app EXCEPT !.grouped = sent.reply.body.grouped,
                                  !.screen = "production"]
  /\ UNCHANGED <<craft, deploy, request, reply, held, stub, runs, gate>>

\* App.findUser
AppFindUser(production, phone) ==
  LET normalizedPhone == normalizePhone(phone)
      inCrew == Matches(production.crew, normalizedPhone)
      inCast == Matches(production.cast, normalizedPhone)
  IN  IF inCrew # {} THEN CrewInfo(production.crew[Min(inCrew)])
      ELSE IF inCast # {} THEN CastInfo(production.cast[Min(inCast)])
      ELSE null

\* App.selectDay followed by App.updatePhoneScreen: the preview request, then
\* the enriching request; a failed request leaves the screen as it is
SelectedDay(state, id, up) ==
  Let(ServedProduction(craft, id, up, "false"), LAMBDA preview :
    IF preview.reply.status # 200
    THEN [app |-> [state EXCEPT !.selectedProduction = id], craft |-> preview.craft]
    ELSE Let(ServedProduction(preview.craft, id, up, "true"), LAMBDA sent :
           IF sent.reply.status # 200
           THEN [app |-> [state EXCEPT !.selectedProduction = id], craft |-> sent.craft]
           ELSE [app |-> [state EXCEPT
                            !.selectedProduction = id,
                            !.currentProduction = sent.reply.body,
                            !.isClosedSet = ClosedSetIsTrue(sent.reply.body),
                            !.skipHidden = ClosedSetIsTrue(sent.reply.body),
                            !.screen = "phone"],
                 craft |-> sent.craft]))

\* App.selectProduction: a click on a production card
SelectProduction ==
  /\ app.screen = "production"
  /\ \E g \in 1..Len(app.grouped), up \in BOOLEAN :
       LET group == app.grouped[g]
           titled == [app EXCEPT !.selectedProductionTitle = group.title]
       IN  /\ Len(group.days) > 0
           /\ IF Len(group.days) = 1
              THEN \E done \in {SelectedDay(titled, group.days[1].id, up)} :
                      app' = done.app /\ craft' = done.craft
              ELSE /\ up
                   /\ app' = [titled EXCEPT !.screen = "day"]
                   /\ craft' = craft
  /\ UNCHANGED <<deploy, request, reply, held, stub, runs, gate>>

\* the group whose days the day screen lists
SelectedGroup ==
  CHOOSE g \in 1..Len(app.grouped) : app.grouped[g].title = app.selectedProductionTitle

\* App.selectDay: a click on a day card
SelectDay ==
  /\ app.screen = "day"
  /\ \E d \in 1..Len(app.grouped[SelectedGroup].days), up \in BOOLEAN :
       \E done \in {SelectedDay(app, app.grouped[SelectedGroup].days[d].id, up)} :
          app' = done.app /\ craft' = done.craft
  /\ UNCHANGED <<deploy, request, reply, held, stub, runs, gate>>

\* App.handlePhoneSubmit, with App.findUser and App.renderCallSheet
HandlePhoneSubmit ==
  /\ app.screen = "phone"
  /\ \E input \in PhoneInputs :
       LET phone == trim(input)
       IN  app' = IF ~Truthy(phone) THEN app
                  ELSE [app EXCEPT !.userPhone = phone,
                                   !.isAuthenticated = TRUE,
                                   !.userInfo = AppFindUser(app.currentProduction, phone),
                                   !.screen = "callsheet"]
  /\ UNCHANGED <<craft, deploy, request, reply, held, stub, runs, gate>>

\* App.handleSkip: a click on the skip button, which a hidden skip option
\* does not offer
HandleSkip ==
  /\ app.screen = "phone"
  /\ ~app.skipHidden
  /\ app' = [app EXCEPT !.isAuthenticated = FALSE, !.userPhone = null, !.userInfo = null,
                        !.screen = "callsheet"]
  /\ UNCHANGED <<craft, deploy, request, reply, held, stub, runs, gate>>

\* the back buttons of the day, phone and call-sheet screens
BackToProductions ==
  /\ app.screen = "day"
  /\ app' = [app EXCEPT !.screen = "production"]
  /\ UNCHANGED <<craft, deploy, request, reply, held, stub, runs, gate>>

BackToDays ==
  /\ app.screen = "phone"
  /\ app' = [app EXCEPT !.screen = "day"]
  /\ UNCHANGED <<craft, deploy, request, reply, held, stub, runs, gate>>

BackToPhone ==
  /\ app.screen = "callsheet"
  /\ app' = [app EXCEPT !.screen =
               IF \E g \in 1..Len(app.grouped) :
                    /\ app.grouped[g].title = app.selectedProductionTitle
                    /\ Len(app.grouped[g].days) > 1
               THEN "day" ELSE "production"]
  /\ UNCHANGED <<craft, deploy, request, reply, held, stub, runs, gate>>

NextClient ==
  \/ LoadProductions
  \/ SelectProduction
  \/ SelectDay
  \/ HandlePhoneSubmit
  \/ HandleSkip
  \/ BackToProductions
  \/ BackToDays
  \/ BackToPhone

SpecClient == InitClient /\ [][NextClient]_vars

\* the call sheet the server holds for the day the visitor selected
SelectedSheet == getProductionById(craft, app.selectedProduction, TRUE).value

\* C5: while the selected production is a closed set, the call-sheet screen
\* is shown only after a phone number was submitted that matches one of its
\* crew or cast members.
C5_ClosedSetNeedsMatch ==
  (app.screen = "callsheet" /\ ClosedSetIsTrue(SelectedSheet)) =>
     /\ app.userPhone # null
     /\ findUserByPhone(SelectedSheet, app.userPhone) # null

(***************************************************************************)
(* Scenario: repeated enrichProduction calls on one production, with a     *)
(* knowledge service that gives the same answer to every request           *)
(*   stub is [answer, faults]; runs lists, per call, what the call met and *)
(*   what it did                                                           *)
(***************************************************************************)
\* a complete result, one that lacks transportDesc, and one whose
\* weatherDesc is empty and whose sunsetTime is a space
Results ==
  {Result(sNew, {}, <<>>),
   [f \in (DOMAIN Result(sNew, {}, <<>>)) \ {transportDesc} |-> sNew],
   [Result(sNew, {weatherDesc}, <<>>) EXCEPT ![sunsetTime] = <<" ">>]}

\* the answers the deployed service can be given
AnswersFor(dep) ==
  IF ~dep.apiKey THEN {AnswerThrow}
  ELSE IF dep.gemini = "batch"
  THEN {AnswerList(l) : l \in SeqsUpTo(Results, MaxReplyLen)}
         \cup {AnswerObject(Result(sNew, {}, <<>>)), AnswerInvalid, AnswerThrow}
  ELSE {AnswerObject(r) : r \in Results} \cup {AnswerInvalid, AnswerThrow}

\* the table requests that fail: none, the read of the first location's
\* table, or the write to it
FaultsFor(dep) ==
  IF ~dep.apiKey THEN {NoFaults}
  ELSE {NoFaults, [read |-> {<<"t", "1">>}, write |-> {}],
        [read |-> {}, write |-> {<<"t", "1">>}]}

\* the locations of the production that is enriched: each still holds its
\* old values
EnrichKinds == LocationKinds \ {"fresh"}

InitEnrich ==
  /\ \E kinds \in SeqsUpTo(EnrichKinds, MaxLocations) :
       /\ craft = Store(<<>>, <<>>, FALSE, "no", kinds)
       /\ held = parseProduction(Store(<<>>, <<>>, FALSE, "no", kinds).items[1])
  /\ deploy \in Deployments
  /\ \E answer \in AnswersFor(deploy), faults \in FaultsFor(deploy) :
       stub = [answer |-> answer, faults |-> faults]
  /\ runs = <<>>
  /\ request = NoRequest /\ reply = NoReply /\ app = NoApp /\ gate = NoGate

GemDataOf(production) == [i \in 1..Len(production.locations) |-> production.locations[i].gemData]

\* what a call is remembered by
RunRecord(e) ==
  [variant |-> deploy.gemini, configured |-> deploy.apiKey,
   eligible |-> {i \in 1..Len(held.locations) :
                   needsEnrichment(held.locations[i].gemData)
                     /\ Truthy(Get(held.locations[i].data, sLocationAddress))},
   addresses |-> [i \in 1..Len(held.locations) |->
                    Get(held.locations[i].data, sLocationAddress)],
   before |-> GemDataOf(held), after |-> GemDataOf(e.production),
   prompts |-> e.prompts, merged |-> e.merged, puts |-> e.puts, threw |-> e.threw]

Ran(e) ==
  /\ held' = e.production
  /\ craft' = e.craft
  /\ runs' = Append(runs, RunRecord(e))
  /\ UNCHANGED <<deploy, stub, request, reply, app, gate>>

\* geminiService.enrichProduction(held), the single-request version
EnrichHeld ==
  /\ deploy.gemini = "batch"
  /\ Len(runs) < MaxEnrichCalls
  /\ \E e \in {enrichProduction(held, craft, deploy.apiKey, stub.answer, stub.faults)} :
       Ran(e)

\* geminiService.enrichProduction(held), the one-request-per-location version
EnrichHeldPerLocation ==
  /\ deploy.gemini = "perLocation"
  /\ Len(runs) < MaxEnrichCalls
  /\ \E e \in {enrichProductionPerLocation(held, craft, deploy.apiKey, stub.answer,
                                           stub.faults)} :
       Ran(e)

NextEnrich ==
  \/ EnrichHeld
  \/ EnrichHeldPerLocation

SpecEnrich == InitEnrich /\ [][NextEnrich]_vars

\* a text that is missing, empty or white space only
Blank(v) == v = undefined \/ \A i \in 1..Len(v) : v[i] \in {" ", "\t"}

\* the ten GEM fields of a location's gemData are all non-blank
Complete(gemData) ==
  \A i \in 1..Len(ResultFields) : ~Blank(Get(gemData, sGEM \o ResultFields[i]))

\* C7 as stated: the second of two calls leaves the gemData of every
\* location as the first call left it.
C7_SecondCallChangesNothing ==
  (Len(runs) >= 2 /\ runs[2].variant = "batch") => runs[2].after = runs[2].before

\* C7: with a knowledge service that gives the same answer to every call, a
\* second enrich call leaves unchanged the gemData of every location that
\* the first call left complete or that has no address; only locations that
\* are still eligible after the first call can change.
C7_SettledLocationsKept ==
  \A k \in 2..Len(runs) :
     \A i \in 1..Len(runs[k].before) :
        (Complete(runs[k].before[i]) \/ ~Truthy(runs[k].addresses[i])) =>
           runs[k].after[i] = runs[k].before[i]

\* the first call completed a location, the second call merged into another
\* one and left the completed one alone
C7_Witness ==
  /\ Len(runs) = 2
  /\ runs[2].variant = "batch"
  /\ runs[2].merged # <<>>
  /\ \E i \in 1..Len(runs[1].before) :
       /\ ~Complete(runs[1].before[i])
       /\ Complete(runs[1].after[i])
       /\ runs[2].after[i] = runs[1].after[i]

\* the addresses that the prompts of a call ask about
AskedAbout(run) ==
  {run.prompts[p].locations[j].address :
     p \in 1..Len(run.prompts), j \in 1..(IF Len(run.prompts) = 0 THEN 0
                                        ELSE Len(run.prompts[1].locations))}

\* what claim C8 promises for the location of merge m of call k
SettledAfter(k, m) ==
  /\ Complete(runs[k].after[m.location])
  /\ ~needsEnrichment(runs[k].after[m.location])
  /\ k < Len(runs) =>
       /\ m.location \notin runs[k + 1].eligible
       /\ runs[k + 1].addresses[m.location] \notin AskedAbout(runs[k + 1])

\* C8 as stated: whatever result a call merges into a location, the
\* location's ten fields are non-blank afterwards and the next call leaves
\* it out.
C8_EveryMergeCompletes ==
  \A k \in 1..Len(runs) :
     \A n \in 1..Len(runs[k].merged) : SettledAfter(k, runs[k].merged[n])

\* a result whose nine fields other than transportDesc are non-blank and
\* whose transportDesc is non-blank, empty or missing
Usable(data) ==
  /\ \A i \in 1..Len(ResultFields) :
       ResultFields[i] # transportDesc => ~Blank(Get(data, ResultFields[i]))
  /\ ~Truthy(Get(data, transportDesc)) \/ ~Blank(Get(data, transportDesc))

\* C8: after a call has merged into a location a result whose nine fields
\* other than transportDesc are non-blank (transportDesc non-blank, empty or
\* missing), all ten gemData fields of the location are non-blank,
\* needsEnrichment is false, and the next call neither lists it as eligible
\* nor asks the knowledge service about it.
C8_UsableMergeCompletes ==
  \A k \in 1..Len(runs) :
     \A n \in 1..Len(runs[k].merged) :
        Usable(runs[k].merged[n].data) => SettledAfter(k, runs[k].merged[n])

\* a result without transportDesc was merged, and the next call skipped the
\* location while asking about another one
C8_Witness ==
  /\ Len(runs) = 2
  /\ runs[1].variant = "batch"
  /\ runs[2].prompts # <<>>
  /\ \E n \in 1..Len(runs[1].merged) :
       /\ ~Truthy(Get(runs[1].merged[n].data, transportDesc))
       /\ Usable(runs[1].merged[n].data)
       /\ runs[1].merged[n].location \in runs[1].eligible
       /\ runs[1].merged[n].location \notin runs[2].eligible

\* C9: a call of a configured service sends no request when no location is
\* eligible and exactly one request, about all the eligible locations, when
\* some are.
C9_OneRequestPerCall ==
  \A k \in 1..Len(runs) :
     runs[k].configured =>
       /\ runs[k].eligible = {} => Len(runs[k].prompts) = 0
       /\ runs[k].eligible # {} =>
            /\ Len(runs[k].prompts) = 1
            /\ AskedAbout(runs[k]) = {runs[k].addresses[i] : i \in runs[k].eligible}
            /\ Len(runs[k].prompts[1].locations) = Cardinality(runs[k].eligible)

(***************************************************************************)
(* Scenario: TableCodec applied to a table block                           *)
(*   request is the call, reply what it returned                           *)
(***************************************************************************)
\* most cells of a header row; a data row may have one cell more
MaxWidth == 2

\* most data rows of a table
MaxRows == 2

sA == <<"a">>
sPaddedB == <<"b", " ">>
sBlankCell == <<" ">>
sPaddedX == <<" ", "x">>

HeaderRows == {[j \in 1..Len(q) |-> Cell(q[j])] :
                 q \in UNION {SeqsOfLen({sA, sPaddedB}, n) : n \in 1..MaxWidth}}

DataRowsOfTable == {[j \in 1..Len(q) |-> Cell(q[j])] :
                      q \in SeqsUpTo({sBlankCell, sPaddedX}, MaxWidth + 1)}

InitTable ==
  /\ \E header \in HeaderRows, rows \in SeqsUpTo(DataRowsOfTable, MaxRows) :
       request = [route |-> "table", table |-> Table(<<"t">>, <<header>> \o rows)]
  /\ reply = NoReply
  /\ held = NoHeld /\ craft = NoCraft /\ deploy = NoDeploy
  /\ stub = NoStub /\ runs = <<>> /\ app = NoApp /\ gate = NoGate

\* parseDataTable(request.table)
ToRecordList ==
  /\ request.route = "table"
  /\ request' = [request EXCEPT !.route = "records"]
  /\ reply' = [records |-> parseDataTable(request.table)]
  /\ UNCHANGED <<held, craft, deploy, stub, runs, app, gate>>

\* parseKeyValueTable(request.table)
ToKeyValue ==
  /\ request.route = "table"
  /\ request' = [request EXCEPT !.route = "keyValue"]
  /\ reply' = [map |-> parseKeyValueTable(request.table)]
  /\ UNCHANGED <<held, craft, deploy, stub, runs, app, gate>>

NextTable ==
  \/ ToRecordList
  \/ ToKeyValue

SpecTable == InitTable /\ [][NextTable]_vars

\* the text of cell j of a row after trimming, '' when the row is too short
CellText(row, j) == IF j <= Len(row) THEN trim(row[j].value) ELSE <<>>

\* the data rows of the table, by position, that have a non-empty cell among
\* their first `width` cells
RowsWithText(rows, width) ==
  {i \in 2..Len(rows) : \E j \in 1..width : CellText(rows[i], j) # <<>>}

\* the k-th smallest member of a set of positions
RECURSIVE Nth(_, _)
Nth(S, k) ==
  LET least == CHOOSE i \in S : \A j \in S : i <= j
  IN  IF k = 1 THEN least ELSE Nth(S \ {least}, k - 1)

\* `records` are exactly the rows `kept`, in order, each keyed by the
\* trimmed header cells, the last column of a name giving its value
RecordsOf(rows, kept, records) ==
  /\ Len(records) = Cardinality(kept)
  /\ \A k \in 1..Len(records) :
       LET row == rows[Nth(kept, k)]
           width == Len(rows[1])
       IN  /\ DOMAIN records[k] = {CellText(rows[1], j) : j \in 1..width}
           /\ \A j \in 1..width :
                (\A l \in (j + 1)..width : CellText(rows[1], l) # CellText(rows[1], j))
                  => records[k][CellText(rows[1], j)] = CellText(row, j)

\* width of the widest row of the table
Widest(rows) == CHOOSE n \in 0..(MaxWidth + 1) :
                  /\ \A i \in 1..Len(rows) : Len(rows[i]) <= n
                  /\ \E i \in 1..Len(rows) : Len(rows[i]) = n

\* C11 as stated: the records are the data rows with a non-empty cell in any
\* column, also a column beyond the header row's width.
C11_RowsWithAnyCellKept ==
  request.route = "records" =>
    RecordsOf(request.table.rows,
              RowsWithText(request.table.rows, Widest(request.table.rows)),
              reply.records)

\* C11: for a table with a header row and data rows, toRecordList returns
\* exactly the data rows that have a non-empty (after trimming) cell in one
\* of the header row's columns, in their original order, each as a record
\* keyed by the trimmed header cells, a missing cell of a short row giving
\* the empty string.
C11_RowsWithHeaderCellKept ==
  request.route = "records" =>
    RecordsOf(request.table.rows,
              RowsWithText(request.table.rows, Len(request.table.rows[1])),
              reply.records)

\* two data rows, the first blank and dropped, the second short and kept
C11_Witness ==
  /\ request.route = "records"
  /\ Len(request.table.rows) = 3
  /\ Len(request.table.rows[1]) = 2
  /\ Len(request.table.rows[3]) = 1
  /\ RowsWithText(request.table.rows, 2) = {3}
  /\ Len(reply.records) = 1
  /\ reply.records[1][<<"b">>] = <<>>

\* C12: every record that toRecordList returns has at least one non-empty
\* value, also when the header row repeats a name.
C12_NoEmptyRecordReturned ==
  request.route = "records" =>
    \A k \in 1..Len(reply.records) :
       \E h \in DOMAIN reply.records[k] : reply.records[k][h] # <<>>

(***************************************************************************)
(* Scenario: parseProduction applied to a collection item                  *)
(*   request is the item, reply the walker's final state                   *)
(***************************************************************************)
\* most blocks of an item's content
MaxBlocks == 3

sNotesHeading == <<"#", " ", "N", "o", "t", "e", "s">>
sCastCrewHeading == <<"#", " ", "C", "A", "S", "T", " ", "C", "R", "E", "W">>
sSceneLocationHeading ==
  <<"#", " ", "S", "c", "e", "n", "e", " ", "L", "o", "c", "a", "t", "i", "o", "n">>
sNotesSubHeading == <<"#", "#", " ", "N", "o", "t", "e", "s">>
sMainSt == <<"1", "2", "3", " ", "M", "a", "i", "n", " ", "S", "t">>
sSunrise == <<"6", ":", "4", "2", " ", "A", "M">>
sRowsTable == <<"t", "r">>
sPairsTable == <<"t", "p">>

\* the table whose first row names the two keys and whose second row gives
\* the two values
RowsTable ==
  Table(sRowsTable, << <<Cell(sLocationAddress), Cell(GemKey(sunriseTime))>>,
                       <<Cell(sMainSt), Cell(sSunrise)>> >>)

\* the table with one key/value pair per row
PairsTable ==
  Table(sPairsTable, << <<Cell(sLocationAddress), Cell(sMainSt)>>,
                        <<Cell(GemKey(sunriseTime)), Cell(sSunrise)>> >>)

LocationOneHeading == Heading("h2", sLocationHeading \o <<" ", "1">>)

ParseBlocks ==
  {Heading("h1", sLocationsHeading), Heading("h1", sCrewHeading),
   Heading("h1", sCastHeading), Heading("h1", sScenesHeading),
   Heading("h1", sNotesHeading), Heading("h1", sCastCrewHeading),
   Heading("h1", sSceneLocationHeading),
   LocationOneHeading, Heading("h2", sNotesSubHeading),
   RowsTable, PairsTable, ScenesTable,
   [type |-> "image"]}

InitParse ==
  /\ \E content \in SeqsUpTo(ParseBlocks, MaxBlocks) :
       request = [route |-> "parse",
                  item |-> [id |-> sP1, title |-> sFilmDay1, content |-> content]]
  /\ reply = NoReply
  /\ held = NoHeld /\ craft = NoCraft /\ deploy = NoDeploy
  /\ stub = NoStub /\ runs = <<>> /\ app = NoApp /\ gate = NoGate

\* parseProduction(request.item)
ParseItem ==
  /\ request.route = "parse"
  /\ request' = [request EXCEPT !.route = "parsed"]
  /\ reply' = parseProductionWalk(request.item)
  /\ UNCHANGED <<held, craft, deploy, stub, runs, app, gate>>

NextParse == ParseItem

SpecParse == InitParse /\ [][NextParse]_vars

\* the content of the end-to-end example, with the given table
ExampleWith(table) == <<Heading("h1", sLocationsHeading), LocationOneHeading, table>>

\* the locations parsed are the one location of the example
OneLocation(tableId, data, gemData) ==
  /\ ~reply.threw
  /\ reply.production.locations =
       << [index |-> 1, tableId |-> tableId, data |-> data, gemData |-> gemData] >>
  /\ needsEnrichment(reply.production.locations[1].gemData)

AddressOnly == [k \in {sLocationAddress} |-> sMainSt]
SunriseOnly == [k \in {GemKey(sunriseTime)} |-> sSunrise]

\* C13 as stated: with the table given as the two rows (keys, values), the
\* example parses to one location with the address in data and the sunrise
\* time in gemData.
C13_RowsReadAsHeaderAndValues ==
  (request.route = "parsed" /\ request.item.content = ExampleWith(RowsTable)) =>
     OneLocation(sRowsTable, AddressOnly, SunriseOnly)

\* C13: the example parses to exactly one Location with index 1 on which
\* needsEnrichment is true.  A location table is read as one key/value pair
\* per row: with the rows (Location Address, GEMsunriseTime) and (123 Main
\* St, 6:42 AM) data is {Location Address: GEMsunriseTime, 123 Main St:
\* 6:42 AM} and gemData is empty; with the rows (Location Address, 123 Main
\* St) and (GEMsunriseTime, 6:42 AM) data is {Location Address: 123 Main St}
\* and gemData is {GEMsunriseTime: 6:42 AM}.
C13_RowsReadAsPairs ==
  /\ (request.route = "parsed" /\ request.item.content = ExampleWith(RowsTable)) =>
        OneLocation(sRowsTable,
                    [k \in {sLocationAddress, sMainSt} |->
                       IF k = sMainSt THEN sSunrise ELSE GemKey(sunriseTime)],
                    EmptyObject)
  /\ (request.route = "parsed" /\ request.item.content = ExampleWith(PairsTable)) =>
        OneLocation(sPairsTable, AddressOnly, SunriseOnly)

\* the example with one pair per row was parsed
C13_Witness ==
  /\ request.route = "parsed"
  /\ request.item.content = ExampleWith(PairsTable)
  /\ Len(reply.production.locations) = 1
  /\ reply.production.locations[1].gemData = SunriseOnly

\* the section that is current when block i of the content is read
SectionAt(content, i) ==
  LET before == {j \in 1..(i - 1) : IsHeading(content[j], "h1")}
  IN  IF before = {} THEN "none"
      ELSE SectionOf(content[CHOOSE j \in before : \A k \in before : k <= j].markdown)

\* the level-2 headings naming a location while the section is `locations`
LocationHeadings(content) ==
  {i \in 1..Len(content) :
     /\ IsHeading(content[i], "h2")
     /\ includes(toLowerCase(content[i].markdown), sLocation)
     /\ SectionAt(content, i) = "locations"}

\* C15: production.locations has one Location per level-2 heading that
\* contains "location" and was read while the section was `locations`, in
\* order, numbered from 1; such a heading in another section allocates
\* nothing.
C15_HeadingsOutsideLocationsInert ==
  request.route = "parsed" =>
    /\ Len(reply.production.locations) =
         Cardinality(LocationHeadings(request.item.content))
    /\ \A k \in 1..Len(reply.production.locations) :
         reply.production.locations[k].index = k

\* C14: a GET for a production id that is not in the reachable store is
\* answered with a not-found failure, not with the status of the generic
\* failure, carries no production, and leaves the store as it was.
C14_UnknownIdNotFound ==
  (/\ request.route = "get"
   /\ request.up
   /\ ItemsWithId(request.craft, request.id) = {}) =>
     /\ reply.status = 404
     /\ DOMAIN reply.body = {"error"}
     /\ craft = request.craft

\* a call of the single-request version whose knowledge service answered
\* with a list
ListRun(k) ==
  runs[k].variant = "batch" /\ runs[k].configured /\ stub.answer.kind = "list"

\* the eligible locations of call k that have a result in the reply list:
\* the first Len(list) of them
Answered(k) ==
  {i \in runs[k].eligible :
     Cardinality({j \in runs[k].eligible : j < i}) < Len(stub.answer.list)}

\* the result the reply list holds for eligible location i of call k
ResultFor(k, i) ==
  stub.answer.list[Cardinality({j \in runs[k].eligible : j < i}) + 1]

MergedInto(k) == {runs[k].merged[n].location : n \in 1..Len(runs[k].merged)}

WrittenBack(k) == {runs[k].puts[n].id : n \in 1..Len(runs[k].puts)}

FailingTables == stub.faults.read \cup stub.faults.write

\* C16: when the table read or the table write of one location fails, every
\* other location that has a result is still merged in memory and has its
\* own write-back sent, and the call returns without raising.
C16_FailureDoesNotAbort ==
  \A k \in 1..Len(runs) :
     ListRun(k) =>
       /\ ~runs[k].threw
       /\ \A i \in Answered(k) :
            held.locations[i].tableId \notin FailingTables =>
              /\ i \in MergedInto(k)
              /\ held.locations[i].tableId \in WrittenBack(k)

\* C17: a result merged into the last location, which has no next address,
\* always leaves GEMtransportDesc = 'N/A'.
C17_LastLocationTransportNA ==
  \A k \in 1..Len(runs) :
     Len(runs[k].before) \in MergedInto(k) =>
        runs[k].after[Len(runs[k].before)][GemKey(transportDesc)] = sNA

\* the production with the gemData of every location blanked out
WithoutGemData(production) ==
  [production EXCEPT !.locations =
     [i \in 1..Len(@) |-> [@[i] EXCEPT !.gemData = EmptyObject]]]

\* eligible: some GEM field blank and a non-empty address
Eligible(location) ==
  ~Complete(location.gemData) /\ Truthy(Get(location.data, sLocationAddress))

\* C18: a call of enrich changes nothing but the gemData of eligible
\* locations: the gemData of every other location, the data, index and
\* tableId of every location, and crew, cast, scenes, properties, id and
\* title are as before.
C18_EnrichFrame ==
  [][runs' # runs =>
       /\ WithoutGemData(held') = WithoutGemData(held)
       /\ \A i \in 1..Len(held.locations) :
            ~Eligible(held.locations[i]) =>
               held'.locations[i].gemData = held.locations[i].gemData]_vars

\* a call merged into one location and left a complete one as it was
C18_Witness ==
  /\ Len(runs) = 1
  /\ runs[1].merged # <<>>
  /\ \E i \in 1..Len(runs[1].before) :
       /\ Complete(runs[1].before[i])
       /\ runs[1].after[i] = runs[1].before[i]
       /\ i < Len(runs[1].before)
       /\ (i + 1) \in MergedInto(1)

\* C19: when the reply list is shorter than the list of eligible locations,
\* the j-th result is stored in the j-th eligible location, the eligible
\* locations without a result keep their gemData and get no write-back, and
\* nothing is raised.
C19_ShortReplyAligned ==
  \A k \in 1..Len(runs) :
     (ListRun(k) /\ Len(stub.answer.list) < Cardinality(runs[k].eligible)) =>
       /\ ~runs[k].threw
       /\ \A i \in Answered(k) :
            \A f \in DOMAIN ResultFor(k, i) :
               Truthy(ResultFor(k, i)[f]) =>
                  runs[k].after[i][GemKey(f)] = ResultFor(k, i)[f]
       /\ \A i \in runs[k].eligible \ Answered(k) :
            /\ runs[k].after[i] = runs[k].before[i]
            /\ held.locations[i].tableId \notin WrittenBack(k)

\* the reply of the knowledge service is not what the called version decodes
Malformed(k) ==
  \/ stub.answer.kind = "invalid"
  \/ runs[k].variant = "batch" /\ stub.answer.kind = "object"

\* C20: when the reply is not valid JSON, or (single-request version) is
\* not a list, the call returns without raising, every location's gemData is
\* as before and no table is written.
C20_MalformedReplyChangesNothing ==
  \A k \in 1..Len(runs) :
     (runs[k].configured /\ Malformed(k)) =>
        /\ ~runs[k].threw
        /\ runs[k].after = runs[k].before
        /\ runs[k].puts = <<>>

\* the knowledge service was asked and answered with an object instead of
\* a list
C20_Witness ==
  /\ Len(runs) >= 1
  /\ runs[1].variant = "batch"
  /\ stub.answer.kind = "object"
  /\ runs[1].prompts # <<>>
  /\ runs[1].eligible # {}
  /\ runs[1].after = runs[1].before

\* the value the merge stores for field f of a result
Stored(data, f) ==
  IF Truthy(Get(data, f)) THEN data[f]
  ELSE IF f = transportDesc THEN sNA ELSE <<>>

\* C21: after a result is merged into a location, the location's gemData
\* has exactly the ten GEM keys; each value is the result's field, or the
\* empty string ('N/A' for GEMtransportDesc) when the result lacks it; no
\* key or value of the previous gemData survives.
C21_MergeIsFullReplace ==
  \A k \in 1..Len(runs) :
     \A n \in 1..Len(runs[k].merged) :
        LET after == runs[k].after[runs[k].merged[n].location]
            data == runs[k].merged[n].data
        IN  /\ DOMAIN after = {GemKey(ResultFields[i]) : i \in 1..Len(ResultFields)}
            /\ \A i \in 1..Len(ResultFields) :
                 after[GemKey(ResultFields[i])] = Stored(data, ResultFields[i])

\* a result lacking a field was merged into a location whose gemData held
\* an eleventh key and old values
C21_Witness ==
  /\ Len(runs) = 1
  /\ \E n \in 1..Len(runs[1].merged) :
       LET before == runs[1].before[runs[1].merged[n].location]
           after == runs[1].after[runs[1].merged[n].location]
       IN  /\ GemKey(sNote) \in DOMAIN before
           /\ before[GemKey(sunriseTime)] = sOldValue
           /\ ~Truthy(Get(runs[1].merged[n].data, weatherDesc))
           /\ after[GemKey(weatherDesc)] = <<>>
           /\ after[GemKey(sunriseTime)] = sNew

\* the rows of the table blockId as the store holds them
PersistedRows(store, blockId) == getBlock(store, blockId, TRUE).value.rows

\* the call just finished (the last of runs')
FinishedCall == runs'[Len(runs')]

\* the result the finished call merged into the location of table blockId
ResultWrittenTo(blockId) ==
  LET n == CHOOSE n \in 1..Len(FinishedCall.merged) :
             held.locations[FinishedCall.merged[n].location].tableId = blockId
  IN  FinishedCall.merged[n].data

\* the replacement the result supplies for a row: the field named by the
\* row's key (GEM stripped, first character lower-cased), when non-falsy
HasReplacement(row, data) ==
  /\ Len(row) >= 2
  /\ startsWith(trim(row[1].value), sGEM)
  /\ Truthy(Get(data, LowerKey(trim(row[1].value))))

\* the rows sent keep the structure of the persisted rows and change only
\* the value cell of GEM rows that have a replacement
StructureKept(old, sent, data) ==
  /\ Len(sent) = Len(old)
  /\ \A r \in 1..Len(old) :
       /\ Len(sent[r]) = Len(old[r])
       /\ IF HasReplacement(old[r], data)
          THEN /\ sent[r][1] = old[r][1]
               /\ sent[r][2].value = data[LowerKey(trim(old[r][1].value))]
               /\ \A c \in 3..Len(old[r]) : sent[r][c] = old[r][c]
          ELSE sent[r] = old[r]

\* C22: the table a call sends to the document store has the rows of the
\* persisted table, in the same order, with the same key cells and the same
\* number of cells per row; only the value cell of a GEM row with a
\* non-falsy replacement differs.
C22_WriteBackKeepsStructure ==
  [][runs' # runs =>
       \A n \in 1..Len(FinishedCall.puts) :
          StructureKept(PersistedRows(craft, FinishedCall.puts[n].id),
                        FinishedCall.puts[n].rows,
                        ResultWrittenTo(FinishedCall.puts[n].id))]_vars

\* the gemData a fresh read of the store gives for location i of the
\* production p1
Reread(i) == parseProduction(craft.items[1]).locations[i].gemData

\* the locations the latest call merged and wrote back successfully
MergedAndWritten ==
  IF runs = <<>> THEN {}
  ELSE {i \in MergedInto(Len(runs)) :
          \E n \in 1..Len(runs[Len(runs)].puts) :
             /\ runs[Len(runs)].puts[n].id = held.locations[i].tableId
             /\ runs[Len(runs)].puts[n].ok}

\* C27: after a call merged a result into a location and its write-back
\* succeeded, a fresh read of the table gives, for each of the ten GEM keys,
\* the value of the in-memory gemData, and reports the location as needing
\* enrichment only if the in-memory copy does.
C27_GemDataRoundTrips ==
  \A i \in MergedAndWritten :
     /\ \A f \in 1..Len(ResultFields) :
          Get(Reread(i), GemKey(ResultFields[f])) =
            held.locations[i].gemData[GemKey(ResultFields[f])]
     /\ needsEnrichment(Reread(i)) => needsEnrichment(held.locations[i].gemData)

\* the section a heading text names: the first of the four keywords, in
\* the order crew, cast, location, scene, that its lower-cased text contains
NamedSection(text) ==
  LET t == toLowerCase(text)
  IN  IF includes(t, sCrew) THEN "crew"
      ELSE IF includes(t, sCast) THEN "cast"
      ELSE IF includes(t, sLocation) THEN "locations"
      ELSE IF includes(t, sScene) THEN "scenes"
      ELSE "none"

\* the section named by the last level-1 heading among the first n blocks
SectionAfter(content, n) ==
  LET seen == {j \in 1..n : IsHeading(content[j], "h1")}
  IN  IF seen = {} THEN "none"
      ELSE NamedSection(content[CHOOSE j \in seen : \A k \in seen : k <= j].markdown)

\* the item without its last block
ButLast(item) == [item EXCEPT !.content = SubSeq(@, 1, Len(@) - 1)]

\* the content ends with a table read while the section is `section`
EndsWithTableIn(content, section) ==
  /\ content # <<>>
  /\ content[Len(content)].type = "table"
  /\ SectionAfter(content, Len(content) - 1) = section

\* C23: the current section is the one named by the last level-1 heading
\* read, whatever the section before it was: crew, else cast, else
\* locations, else scenes, else none, by the keywords its lower-cased text
\* contains; a table read while the section is none changes nothing.
C23_SectionFromLastHeading ==
  request.route = "parsed" =>
    /\ reply.currentSection = SectionAfter(request.item.content, Len(request.item.content))
    /\ EndsWithTableIn(request.item.content, "none") =>
         reply.production = parseProduction(ButLast(request.item))

\* a heading naming cast before crew was read after another section
C23_Witness ==
  /\ request.route = "parsed"
  /\ Len(request.item.content) = 2
  /\ request.item.content[1] = Heading("h1", sScenesHeading)
  /\ request.item.content[2] = Heading("h1", sCastCrewHeading)
  /\ reply.currentSection = "crew"

\* the records of the last table read while the section was `section`
LastTableOf(content, section) ==
  LET tables == {i \in 1..Len(content) :
                   content[i].type = "table" /\ SectionAfter(content, i - 1) = section}
  IN  IF tables = {} THEN <<>>
      ELSE parseDataTable(content[CHOOSE i \in tables : \A k \in tables : k <= i])

\* the content without the tables read in the crew, cast or scenes section
RECURSIVE WithoutListTables(_, _)
WithoutListTables(content, n) ==
  IF n = 0 THEN <<>>
  ELSE WithoutListTables(content, n - 1)
       \o (IF content[n].type = "table"
              /\ SectionAfter(content, n - 1) \in {"crew", "cast", "scenes"}
           THEN <<>> ELSE <<content[n]>>)

\* C24: crew, cast and scenes are each the records of the last table read
\* in their section (empty without one); earlier tables leave nothing, and
\* these tables change no location.
C24_TablesReplace ==
  request.route = "parsed" =>
    /\ reply.production.crew = LastTableOf(request.item.content, "crew")
    /\ reply.production.cast = LastTableOf(request.item.content, "cast")
    /\ reply.production.scenes = LastTableOf(request.item.content, "scenes")
    /\ reply.production.locations =
         parseProduction([request.item EXCEPT !.content =
                            WithoutListTables(@, Len(@))]).locations

\* two tables were read in the crew section; the second one's record stays
C24_Witness ==
  /\ request.route = "parsed"
  /\ request.item.content = <<Heading("h1", sCrewHeading), RowsTable, PairsTable>>
  /\ reply.production.crew = parseDataTable(PairsTable)
  /\ Len(reply.production.crew) = 1
  /\ reply.production.cast = <<>>

\* the keys of a key/value table that are not blank
NonBlankKeys(table) ==
  {trim(table.rows[r][1].value) : r \in {q \in 1..Len(table.rows) : Len(table.rows[q]) >= 2}}
    \ {<<>>}

\* C25: a table read in the locations section after a location sub-heading
\* of that section goes to the current location: keys with the prefix GEM to
\* gemData, the other keys to data, together the table's non-blank keys, and
\* tableId is the table's id; a table read in the locations section before
\* any location sub-heading creates no location and is ignored.
C25_LocationTableRouted ==
  (request.route = "parsed" /\ EndsWithTableIn(request.item.content, "locations")) =>
     LET content == request.item.content
         table == content[Len(content)]
         locations == reply.production.locations
     IN  IF LocationHeadings(content) = {}
         THEN /\ reply.production = parseProduction(ButLast(request.item))
              /\ locations = <<>>
         ELSE LET current == locations[Len(locations)]
              IN  /\ current.tableId = table.id
                  /\ \A k \in DOMAIN current.gemData : startsWith(k, sGEM)
                  /\ \A k \in DOMAIN current.data : ~startsWith(k, sGEM)
                  /\ (DOMAIN current.data) \cup (DOMAIN current.gemData) = NonBlankKeys(table)

\* the caller's phone of a lookup or of an authenticate request
PhoneOf(req) ==
  IF req.route = "findUser" THEN req.phone ELSE Get(req.body, "phone")

\* some crew or cast member of `held` has a phone without any digit
MemberWithoutDigits ==
  \E i \in 1..Len(Scanned(held)) : DigitsOnly(Get(Scanned(held)[i].member, sPhone)) = <<>>

\* C28: for a caller phone without any digit findUserByPhone returns null,
\* also when a crew or cast member has a phone without digits, and the
\* authenticate reply says authenticated = false, names no user and carries
\* no unsanitized production.
C28_NoDigitsNeverAuthenticates ==
  (request.route \in {"findUser", "authenticate"} /\ DigitsOnly(PhoneOf(request)) = <<>>) =>
     IF request.route = "findUser" THEN reply = null
     ELSE /\ reply.body.authenticated = FALSE
          /\ "userInfo" \in DOMAIN reply.body => reply.body.userInfo = null
          /\ "production" \in DOMAIN reply.body =>
               reply.body.production = sanitizeProduction(held)

\* a caller phone of one dash was answered while a member has an empty phone
C28_Witness ==
  /\ request.route = "authenticate"
  /\ PhoneOf(request) = <<"-">>
  /\ MemberWithoutDigits
  /\ reply.status = 200
  /\ reply.body.authenticated = FALSE

(***************************************************************************)
(* Scenario: GET /api/production/:id requests served at the same time by   *)
(* the sanitizing api.js and the single-request geminiService. A request   *)
(* yields at each await; runs holds one record per request:                *)
(*   pc "idle"     not yet received                                        *)
(*      "asked"    waiting for model.generateContent                       *)
(*      "reading"  waiting for getBlock                                    *)
(*      "writing"  waiting for updateBlocks                                *)
(*      "sent"     answered                                                *)
(***************************************************************************)
\* most requests in flight
MaxRequests == 2

IdleRequest ==
  [pc |-> "idle", production |-> null, tableId |-> null, enrichedData |-> null,
   snapshot |-> null, rows |-> null, met |-> null, response |-> NoReply]

InitRace ==
  /\ \E kind \in LocationKinds : craft = Store(<<>>, <<>>, FALSE, "no", <<kind>>)
  /\ deploy = [routes |-> "sanitizing", gemini |-> "batch", apiKey |-> TRUE]
  /\ runs = [p \in 1..MaxRequests |-> IdleRequest]
  /\ request = NoRequest /\ reply = NoReply
  /\ held = NoHeld /\ stub = NoStub /\ app = NoApp /\ gate = NoGate

\* res.json(sanitizeProduction(production))
Answered200(proc) ==
  [proc EXCEPT !.pc = "sent", !.response = Response(200, sanitizeProduction(proc.production))]

\* the store answers getProductionById; the route's gate and the start of
\* enrichProduction run to the first await, model.generateContent(prompt)
RaceLoad(p) ==
  /\ runs[p].pc = "idle"
  /\ \E got \in {getProductionById(craft, sP1, TRUE)} :
       \E toEnrich \in {locationsToEnrich(got.value.locations)} :
         runs' = [runs EXCEPT ![p] =
                    IF NeedsEnrich(got.value) /\ Len(toEnrich) > 0
                    THEN [@ EXCEPT !.pc = "asked", !.production = got.value]
                    ELSE Answered200([@ EXCEPT !.production = got.value])]
  /\ UNCHANGED <<craft, deploy, request, reply, held, stub, app, gate>>

\* the knowledge service answers; the result is merged into the location in
\* memory and updateLocationWithGemData runs to its first await, getBlock
RaceAnswer(p) ==
  /\ runs[p].pc = "asked"
  /\ \E answer \in {AnswerList(<<r>>) : r \in Results} \cup {AnswerThrow} :
       \E toEnrich \in {locationsToEnrich(runs[p].production.locations)} :
         runs' = [runs EXCEPT ![p] =
                    IF answer.kind # "list" THEN Answered200(@)
                    ELSE [@ EXCEPT !.pc = "reading",
                                   !.enrichedData = answer.list[1],
                                   !.tableId = runs[p].production.locations[toEnrich[1].location].tableId,
                                   !.production.locations[toEnrich[1].location].gemData =
                                      MergedGemData(answer.list[1])]]
  /\ UNCHANGED <<craft, deploy, request, reply, held, stub, app, gate>>

\* the store answers getBlock; the rows are rebuilt from that answer and
\* updateBlocks is sent
RaceRead(p) ==
  /\ runs[p].pc = "reading"
  /\ \E got \in {getBlock(craft, runs[p].tableId, TRUE)} :
       runs' = [runs EXCEPT ![p] =
                  [@ EXCEPT !.pc = "writing",
                            !.snapshot = got.value.rows,
                            !.rows = [r \in 1..Len(got.value.rows) |->
                                        UpdatedRow(got.value.rows[r], runs[p].enrichedData)]]]
  /\ UNCHANGED <<craft, deploy, request, reply, held, stub, app, gate>>

LandPut_rereads(store, proc) ==
  PutRows(store, proc.tableId,
          [r \in 1..Len(getBlock(store, proc.tableId, TRUE).value.rows) |->
             UpdatedRow(getBlock(store, proc.tableId, TRUE).value.rows[r], proc.enrichedData)])

\* the store applies the PUT /blocks body [{id: tableId, rows: updatedRows}]
LandPut(store, proc) == PutRows(store, proc.tableId, proc.rows)

\* the store applies updateBlocks; the loop has no further location, and the
\* route answers. met remembers the rows the write replaced.
RaceWrite(p) ==
  /\ runs[p].pc = "writing"
  /\ craft' = LandPut(craft, runs[p])
  /\ runs' = [runs EXCEPT ![p] =
                Answered200([@ EXCEPT !.met = getBlock(craft, runs[p].tableId, TRUE).value.rows])]
  /\ UNCHANGED <<deploy, request, reply, held, stub, app, gate>>

NextRace ==
  \E p \in 1..MaxRequests :
    \/ RaceLoad(p)
    \/ RaceAnswer(p)
    \/ RaceRead(p)
    \/ RaceWrite(p)

SpecRace == InitRace /\ [][NextRace]_vars

\* the location of the served call sheet passes the gate of the route and of
\* enrichProduction
StoredLocationEligible ==
  LET production == getProductionById(craft, sP1, TRUE).value
  IN  NeedsEnrich(production) /\ EligiblePositions(production.locations) # {}

\* C26: requests in flight are not coordinated. A request passes the
\* enrichment gate and calls the knowledge service whenever the location it
\* read still needs enrichment, whatever the other requests are doing; and
\* each write-back replaces the whole table by the rows the writer rebuilt
\* from its own earlier read, so the persisted table is that of the replace
\* that landed last and changes made since the writer's read are lost.
C26_UncoordinatedReadThenReplace ==
  [][\A p \in 1..MaxRequests :
       /\ (runs[p].pc = "idle" /\ runs'[p].pc # "idle") =>
            (runs'[p].pc = "asked" <=> StoredLocationEligible)
       /\ (runs[p].pc = "writing" /\ runs'[p].pc = "sent") =>
            PersistedRows(craft', runs[p].tableId) =
              [r \in 1..Len(runs[p].snapshot) |->
                 UpdatedRow(runs[p].snapshot[r], runs[p].enrichedData)]]_vars

\* two requests both called the knowledge service and both wrote the table;
\* the table changed between the read and the write of the one that landed
\* last, and a value persisted in between is gone
C26_Witness ==
  /\ \A p \in 1..2 : runs[p].pc = "sent" /\ runs[p].enrichedData # null /\ runs[p].met # null
  /\ \E p \in 1..2 :
       /\ runs[p].met # runs[p].snapshot
       /\ PersistedRows(craft, runs[p].tableId) = runs[p].rows
       /\ \E r \in 1..Len(runs[p].met) :
            /\ Truthy(CellValue(runs[p].met[r], 1))
            /\ ~Truthy(CellValue(runs[p].rows[r], 1))

\* the crew and cast members of the loaded production whose phone digits are
\* those of the submitted phone, as App.state.userInfo would name them
NamedByPhone(production, phone) ==
  {CrewInfo(production.crew[i]) :
     i \in {n \in 1..Len(production.crew) :
              DigitsOnly(Get(production.crew[n], sPhone)) = DigitsOnly(phone)}}
    \cup
  {CastInfo(production.cast[i]) :
     i \in {n \in 1..Len(production.cast) :
              DigitsOnly(Get(production.cast[n], sPhone)) = DigitsOnly(phone)}}

\* C29: App.state.userInfo names a member only if the last submitted phone
\* has a non-empty digit string equal to the digit string of that member's
\* phone in the loaded production; otherwise userInfo is null (and the
\* greeting, rendered only for a truthy userInfo, is not shown).
C29_PersonalisedOnlyByPhoneMatch ==
  (app.screen = "callsheet" /\ app.userInfo # null) =>
     /\ app.userPhone # null
     /\ DigitsOnly(app.userPhone) # <<>>
     /\ app.userInfo \in NamedByPhone(app.currentProduction, app.userPhone)

\* what the GET route did for the last request: the knowledge-service prompts
\* it sent and the table writes it sent
LastLoad == LoadAndEnrich(request.craft, deploy, request)

\* C30: a GET /production/:id with enrich=false, a GET for a production in
\* which no location needs enrichment, and every POST authenticate send no
\* prompt to the knowledge service and no table write to the document store,
\* and leave the persisted documents as they were.
C30_OnlyEnrichmentMutates ==
  /\ request.route = "authenticate" => craft = request.craft
  /\ (request.route = "get" /\ ~Asked.threw
        /\ (request.enrich = "false" \/ ~NeedsEnrich(Asked.value))) =>
       /\ LastLoad.prompts = <<>>
       /\ LastLoad.puts = <<>>
       /\ craft = request.craft

\* a GET with enrich=false for a call sheet whose location has an address
\* and empty GEM rows, served with the knowledge service configured
C30_Witness ==
  /\ request.route = "get" /\ request.enrich = "false"
  /\ deploy.apiKey
  /\ ~Asked.threw
  /\ NeedsEnrich(Asked.value)
  /\ EligiblePositions(Asked.value.locations) # {}
  /\ reply.status = 200
  /\ craft = request.craft

====
